---- MODULE Spec2Model ----
(***************************************************************************)
(* Model of the network-topology resolver of the gateway.                  *)
(*                                                                         *)
(* graph-gateway/src/network/internal.rs: process_indexers_info runs one   *)
(* task per indexer (join_all); every task walks the pipeline              *)
(*   address blocklist -> host resolution/blocklist -> versions -> POI ->  *)
(*   indexing progress -> cost models                                      *)
(* and yields Some((id, indexer)) or None.  An action of the model is the  *)
(* code of one task between two await points.  The answers of the external *)
(* resolvers (DNS, indexer endpoints) are fixed per indexer in `net`.      *)
(***************************************************************************)
EXTENDS Integers, Sequences, FiniteSets, TLC

\* ------------------------------------------------------------------ bounds
NumIndexers == 2
NumDeployments == 2
NumSubgraphs == 2
MaxAllocations == 3
MaxPolls == 2
MaxDomainLen == 3
MaxAuthorized == 2
MaxOperations == 2

Addresses == 1..NumIndexers
Deployments == 1..NumDeployments
IPs == {"ip1", "ip2"}
POIs == {"poi_bad", "poi_good"}
Sources == {"src_good", "src_bad"}

\* semver::Version as <<major, minor, patch>>
Versions == {<<0, 0, 1>>, <<0, 1, 0>>, <<1, 0, 0>>}
\* Version::new(0, 0, 0), the placeholder of a pre-processed IndexerInfo
VersionPlaceholder == <<0, 0, 0>>

\* Option<T>
None == [some |-> FALSE, v |-> {}]
Some(x) == [some |-> TRUE, v |-> x]
\* Result<T, E> of a resolver; `dflt` is the payload slot of an error
Fail(dflt) == [ok |-> FALSE, v |-> dflt]
Ok(x) == [ok |-> TRUE, v |-> x]

\* the empty HashMap / Vec
EmptyMap == <<>>

Range(s) == {s[j] : j \in DOMAIN s}
Restrict(f, S) == [x \in (DOMAIN f) \cap S |-> f[x]]

\* Vec1<DeploymentId> with unique entries: the non-empty duplicate-free lists
DeploymentLists ==
    {s \in UNION {[1..n -> Deployments] : n \in 1..NumDeployments} :
        \A a, b \in DOMAIN s : a # b => s[a] # s[b]}

\* semver's ordering of versions without pre-release: lexicographic
VersionLt(a, b) ==
    \/ a[1] < b[1]
    \/ a[1] = b[1] /\ a[2] < b[2]
    \/ a[1] = b[1] /\ a[2] = b[2] /\ a[3] < b[3]

VersionGe(a, b) == ~VersionLt(a, b)

\* ------------------------------------------------------------------- URLs
\* The text of a URL is the sequence of its characters.
Letters == {"a", "f", "h", "p", "s", "t", "x"}

StartsWith(text, prefix) ==
    /\ Len(text) >= Len(prefix)
    /\ SubSeq(text, 1, Len(prefix)) = prefix

\* the index of the first occurrence of the character c in text, or 0
IndexOf(text, c) ==
    IF \E k \in DOMAIN text : text[k] = c
    THEN CHOOSE k \in DOMAIN text : text[k] = c /\ \A j \in 1..(k - 1) : text[j] # c
    ELSE 0

\* the text up to (without) the first occurrence of c, or the whole text
UpTo(text, c) ==
    IF IndexOf(text, c) = 0 THEN text ELSE SubSeq(text, 1, IndexOf(text, c) - 1)

\* the text without its leading occurrences of c
RECURSIVE SkipLeading(_, _)
SkipLeading(text, c) ==
    IF text # <<>> /\ Head(text) = c THEN SkipLeading(Tail(text), c) ELSE text

\* the schemes whose URLs always have a host
SpecialSchemes ==
    {<<"h", "t", "t", "p">>, <<"h", "t", "t", "p", "s">>, <<"f", "t", "p">>}

\* str::parse::<Url>(): Ok([scheme, host]) or Err.  A scheme is a non-empty run
\* of letters before the first ":".  After a special scheme any number of "/"
\* is skipped and the host, which must not be empty, runs to the next "/".
\* After another scheme there is a host only behind "//", and an empty one
\* counts as none.
parse_url(text) ==
    LET colon == IndexOf(text, ":")
        scheme == SubSeq(text, 1, colon - 1)
        rest == SubSeq(text, colon + 1, Len(text))
        special_host == UpTo(SkipLeading(rest, "/"), "/")
        other_host == UpTo(SubSeq(rest, 3, Len(rest)), "/")
    IN IF colon <= 1 \/ \E k \in 1..(colon - 1) : text[k] \notin Letters
       THEN Fail("relative URL without a base")
       ELSE IF scheme \in SpecialSchemes
       THEN IF special_host = <<>>
            THEN Fail("empty host")
            ELSE Ok([scheme |-> scheme, host |-> Some(special_host)])
       ELSE IF StartsWith(rest, <<"/", "/">>) /\ other_host # <<>>
       THEN Ok([scheme |-> scheme, host |-> Some(other_host)])
       ELSE Ok([scheme |-> scheme, host |-> None])

\* "http://a", "https://a/", "httpx://a", "ftp://a", "http://", "a", "httpx:a",
\* "x:a", "://a"
UrlTexts ==
    {<<"h", "t", "t", "p", ":", "/", "/", "a">>,
     <<"h", "t", "t", "p", "s", ":", "/", "/", "a", "/">>,
     <<"h", "t", "t", "p", "x", ":", "/", "/", "a">>,
     <<"f", "t", "p", ":", "/", "/", "a">>,
     <<"h", "t", "t", "p", ":", "/", "/">>,
     <<"a">>,
     <<"h", "t", "t", "p", "x", ":", "a">>,
     <<"x", ":", "a">>,
     <<":", "/", "/", "a">>}

UrlHttp == <<"h", "t", "t", "p", ":", "/", "/", "a">>

\* A pre-processed IndexerInfo with one allocation of one token on each of its
\* deployments (the allocation on deployment d has the id d)
IndexerInfo(id, deployments) ==
    [id |-> id,
     url |-> parse_url(UrlHttp).v,
     staked_tokens |-> 1,
     deployments |-> deployments,
     largest_allocation |-> [d \in Range(deployments) |-> d],
     total_allocated_tokens |-> [d \in Range(deployments) |-> 1],
     indexer_agent_version |-> VersionPlaceholder,
     graph_node_version |-> VersionPlaceholder,
     indexings_progress |-> EmptyMap,
     indexings_cost_model |-> EmptyMap]

VARIABLES
    state,                 \* InternalState: the blocklists and the minimum versions
    net,                   \* per indexer, the answers of the external resolvers
    indexers,              \* the input map of process_indexers_info
    indexer,               \* per task, the local `let mut indexer`
    pc,                    \* per task, the await point it is at
    local,                 \* per task, values held across an await
    indexer_host_resolver, \* Mutex<HostResolver>: the task holding it, or 0
    pois_resolver,         \* Mutex<PoiResolver>: the task holding it, or 0
    compiler,              \* Mutex<CostModelCompiler>: the task holding it, or 0
    log,                   \* per task, the calls made so far, in order
    result,                \* the value process_indexers_info returned
    client,                \* SubgraphClient: the answers of fetch_indexers and fetch_subgraphs
    indexers_info,         \* the value fetch_and_pre_process_indexers_info returned
    subgraphs_info,        \* the value fetch_and_pre_process_subgraphs_info returned
    debug,                 \* the "filtering-out" messages of the two functions, in order
    subgraph_client,       \* Mutex<SubgraphClient>: the side of fetch_update holding it, or "free"
    side,                  \* per side of the try_join in fetch_update, the point it is at
    update,                \* the value fetch_update returned
    registry,              \* the answer of the network subgraph to the paginated query
    timer,                 \* eventuals::timer: TRUE when a tick waits for pipe_async
    polls,                 \* the number of calls of poll_subgraphs so far
    polling,               \* the calls of poll_subgraphs that did not return
    outcomes,              \* per returned call of poll_subgraphs, "Ok" or "Err"
    network_subgraphs,     \* Eventual<Ptr<Vec<network_subgraph::Subgraph>>>
    mapping,               \* the value GraphNetwork::subgraphs is converting
    graph_network,         \* GraphNetwork: the Eventuals subgraphs, deployments, indexers
    new,                   \* GraphNetwork::new: "awaiting" or "returned"
    ip_blocker,            \* per deployment built last, the URLs IpBlocker answered Err for
    auth,                  \* the authorized lists of an API key and the last check made on them
    sql                    \* the Context given to validate_sql_query and what it returned

\* the variables of fetch_update around its two sides
update_vars == <<subgraph_client, side, update>>

\* the variables of the checks made on a client query
request_vars == <<auth, sql>>

\* the variables of the poll loop of network_subgraph::Client and of GraphNetwork
topology_vars == <<registry, timer, polls, polling, outcomes, network_subgraphs, mapping,
                   graph_network, new, ip_blocker>>

\* the variables outside process_indexers_info
fetch_vars == <<client, indexers_info, subgraphs_info, debug, update_vars, topology_vars,
                request_vars>>

vars == <<state, net, indexers, indexer, pc, local, indexer_host_resolver,
          pois_resolver, compiler, log, result, fetch_vars>>

Tasks == DOMAIN indexers

\* ------------------------------------------------- external collaborators
\* AddrBlocklist::check: membership of the address in the configured set
AddrBlocklist_check(blocklist, addr) == addr \in blocklist

\* HostBlocklist::check: blocked if any resolved IP falls within any configured
\* network (a network is the set of the IPs it holds)
HostBlocklist_check(blocklist, resolution) ==
    \E ip \in resolution : \E network \in blocklist : ip \in network

Blocks == {100}

\* PoiBlocklist: a set of <<deployment, block, forbidden poi>>.
\* affected_pois_metadata: the <<deployment, block>> pairs of the blocklist that
\* name one of the given deployments
PoiBlocklist_affected_pois_metadata(blocklist, deployments) ==
    {<<e[1], e[2]>> : e \in {x \in blocklist : x[1] \in Range(deployments)}}

\* PoiBlocklist::check: for every deployment with a returned POI, "blocked" if
\* one of its returned POIs is a forbidden one, else "allowed"
PoiBlocklist_check(blocklist, poi_result) ==
    [d \in {k[1] : k \in DOMAIN poi_result} |->
        IF \E k \in DOMAIN poi_result :
              k[1] = d /\ <<k[1], k[2], poi_result[k]>> \in blocklist
        THEN "blocked" ELSE "allowed"]

\* CostModelCompiler::compile: Ok(cost model) or Err
Compile(source) ==
    IF source = "src_good" THEN Ok(<<"cost_model", source>>) ELSE Fail(<<>>)

\* ------------------------------------------------------- the pipeline steps
\* the Some/None test is inverted: a configured blocklist is never consulted
check_indexer_blocked_by_addr_blocklist_skipped(blocklist, info) ==
    IF blocklist.some THEN "Ok"
    ELSE IF AddrBlocklist_check(blocklist.v, info.id) THEN "Err"
    ELSE "Ok"

\* check_indexer_blocked_by_addr_blocklist: "Ok" or "Err"
check_indexer_blocked_by_addr_blocklist(blocklist, info) ==
    IF ~blocklist.some THEN "Ok"
    ELSE IF AddrBlocklist_check(blocklist.v, info.id) THEN "Err"
    ELSE "Ok"

\* the configuration is looked at first: without a blocklist a failed
\* resolution is let through
check_indexer_blocked_by_host_blocklist_config_first(resolution_result, blocklist) ==
    IF ~blocklist.some THEN "Ok"
    ELSE IF ~resolution_result.ok THEN "Err"
    ELSE IF HostBlocklist_check(blocklist.v, resolution_result.v) THEN "Err"
    ELSE "Ok"

\* resolve_and_check_indexer_blocked_by_host_blocklist, given the answer of
\* host_resolver.resolve_url: "Ok" or "Err"
check_indexer_blocked_by_host_blocklist(resolution_result, blocklist) ==
    IF ~resolution_result.ok THEN "Err"
    ELSE IF ~blocklist.some THEN "Ok"
    ELSE IF HostBlocklist_check(blocklist.v, resolution_result.v) THEN "Err"
    ELSE "Ok"

\* a failed agent probe is treated like a failed graph node probe: let through
check_agent_version_lenient(answer, min_agent_version) ==
    IF ~answer.ok THEN "Ok"
    ELSE IF VersionLt(answer.v, min_agent_version) THEN "Err"
    ELSE "Ok"

\* resolve_and_check_indexer_blocked_by_version, first half: the answer of
\* resolve_agent_version against the minimum
check_agent_version(answer, min_agent_version) ==
    IF ~answer.ok THEN "Err"
    ELSE IF VersionLt(answer.v, min_agent_version) THEN "Err"
    ELSE "Ok"

\* a failed graph node probe leaves the placeholder version
resolved_graph_node_version_placeholder(answer, min_graph_node_version) ==
    IF ~answer.ok THEN VersionPlaceholder ELSE answer.v

\* resolve_and_check_indexer_blocked_by_version, second half: the graph node
\* version the answer of resolve_graph_node_version stands for
resolved_graph_node_version(answer, min_graph_node_version) ==
    IF ~answer.ok THEN min_graph_node_version ELSE answer.v

\* the operands of the comparison are swapped
check_graph_node_version_swapped(graph_node_version, min_graph_node_version) ==
    IF VersionLt(min_graph_node_version, graph_node_version) THEN "Err" ELSE "Ok"

check_graph_node_version(graph_node_version, min_graph_node_version) ==
    IF VersionLt(graph_node_version, min_graph_node_version) THEN "Err" ELSE "Ok"

\* a deployment without an entry in the check result is removed
retain_deployments_drops_unknown(deployments, check_result) ==
    SelectSeq(deployments,
              LAMBDA id : IF id \in DOMAIN check_result
                          THEN check_result[id] = "allowed"
                          ELSE FALSE)

\* indexer.deployments.retain(|id| ...): the deployments kept, in order
retain_deployments(deployments, check_result) ==
    SelectSeq(deployments,
              LAMBDA id : IF id \in DOMAIN check_result
                          THEN check_result[id] = "allowed"
                          ELSE TRUE)

\* the conversion of the progress resolver's answer into indexings_progress
indexing_progress(progress_status) ==
    [d \in DOMAIN progress_status |->
        [latest_block |-> progress_status[d].latest_block,
         min_block |-> progress_status[d].min_block]]

\* one source that fails to compile discards all the cost models
compile_cost_models_all_or_nothing(sources) ==
    IF \A x \in DOMAIN sources : Compile(sources[x]).ok
    THEN [d \in DOMAIN sources |-> Compile(sources[d]).v]
    ELSE EmptyMap

\* the filter_map over the cost model sources: the ones that compile
compile_cost_models(sources) ==
    [d \in {x \in DOMAIN sources : Compile(sources[x]).ok} |-> Compile(sources[d]).v]

\* --------------------------------------------------------------- the tasks
Call(op, args) == [op |-> op, args |-> args]
NoArgs == <<>>

Goto(i, p) == pc' = [pc EXCEPT ![i] = p]
Logged(i, events) == log' = [log EXCEPT ![i] = @ \o events]

\* the drop is logged but the task goes on with a later step
ReturnNone_goes_on(i, events) ==
    /\ Goto(i, "cost_model")
    /\ Logged(i, events \o <<Call("return_none", NoArgs)>>)

\* `return None` of a task: the indexer is filtered out
ReturnNone(i, events) ==
    /\ Goto(i, "dropped")
    /\ Logged(i, events \o <<Call("return_none", NoArgs)>>)

\* the tasks are spawned: they run on when the future of fetch_update is gone
Running_spawned == result.status = "pending"

\* process_indexers_info is polled: it was called and did not return, and the
\* future of fetch_update that owns it is not ready
Running == result.status = "pending" /\ update.status = "pending"

\* internal.rs 467-473
addr_step(i) ==
    /\ Running /\ pc[i] = "addr"
    /\ IF check_indexer_blocked_by_addr_blocklist(state.indexer_addr_blocklist, indexer[i]) = "Err"
       THEN ReturnNone(i, <<Call("check_addr", NoArgs)>>)
       ELSE /\ Goto(i, "host_lock")
            /\ Logged(i, <<Call("check_addr", NoArgs)>>)
    /\ UNCHANGED <<fetch_vars, state, net, indexers, indexer, local, indexer_host_resolver,
                   pois_resolver, compiler, result>>

\* try_lock in place of lock: a task that finds the host resolver taken gives
\* its indexer up
host_lock_or_give_up(i) ==
    /\ Running /\ pc[i] = "host_lock"
    /\ IF indexer_host_resolver = 0
       THEN /\ indexer_host_resolver' = i
            /\ Goto(i, "host_resolve")
            /\ Logged(i, <<Call("lock_host_resolver", NoArgs)>>)
       ELSE /\ UNCHANGED indexer_host_resolver
            /\ ReturnNone(i, <<Call("lock_host_resolver", NoArgs)>>)
    /\ UNCHANGED <<fetch_vars, state, net, indexers, indexer, local, pois_resolver, compiler, result>>

\* internal.rs 601: resolver.lock().await
host_lock(i) ==
    /\ Running /\ pc[i] = "host_lock"
    /\ indexer_host_resolver = 0
    /\ indexer_host_resolver' = i
    /\ Goto(i, "host_resolve")
    /\ Logged(i, <<Call("lock_host_resolver", NoArgs)>>)
    /\ UNCHANGED <<fetch_vars, state, net, indexers, indexer, local, pois_resolver, compiler, result>>

\* internal.rs 602-621: resolve_url answers; the guard is dropped on return
host_resolve(i) ==
    /\ Running /\ pc[i] = "host_resolve"
    /\ indexer_host_resolver' = 0
    /\ IF check_indexer_blocked_by_host_blocklist(net[i].host, state.indexer_host_blocklist) = "Err"
       THEN ReturnNone(i, <<Call("resolve_url", NoArgs)>>)
       ELSE /\ Goto(i, "agent_version")
            /\ Logged(i, <<Call("resolve_url", NoArgs)>>)
    /\ UNCHANGED <<fetch_vars, state, net, indexers, indexer, local, pois_resolver, compiler, result>>

\* internal.rs 636-651: resolve_agent_version answers
agent_version_step(i) ==
    /\ Running /\ pc[i] = "agent_version"
    /\ IF check_agent_version(net[i].agent, state.indexer_min_agent_version) = "Err"
       THEN /\ ReturnNone(i, <<Call("resolve_agent_version", NoArgs)>>)
            /\ UNCHANGED local
       ELSE /\ Goto(i, "graph_node_version")
            /\ Logged(i, <<Call("resolve_agent_version", NoArgs)>>)
            /\ local' = [local EXCEPT ![i].agent_version = net[i].agent.v]
    /\ UNCHANGED <<fetch_vars, state, net, indexers, indexer, indexer_host_resolver,
                   pois_resolver, compiler, result>>

\* internal.rs 654-680: resolve_graph_node_version answers
graph_node_version_step(i) ==
    /\ Running /\ pc[i] = "graph_node_version"
    /\ LET graph_node_version ==
               resolved_graph_node_version(net[i].node, state.indexer_min_graph_node_version)
       IN IF check_graph_node_version(graph_node_version,
                                      state.indexer_min_graph_node_version) = "Err"
          THEN /\ ReturnNone(i, <<Call("resolve_graph_node_version", NoArgs)>>)
               /\ UNCHANGED indexer
          ELSE /\ Goto(i, "poi")
               /\ Logged(i, <<Call("resolve_graph_node_version", NoArgs)>>)
               /\ indexer' = [indexer EXCEPT
                      ![i].indexer_agent_version = local[i].agent_version,
                      ![i].graph_node_version = graph_node_version]
    /\ UNCHANGED <<fetch_vars, state, net, indexers, local, indexer_host_resolver,
                   pois_resolver, compiler, result>>

\* the is_empty check of the affected POIs is missing: a configured blocklist
\* always leads to a probe
poi_step_always_probes(i) ==
    /\ Running /\ pc[i] = "poi"
    /\ LET blocklist == state.indexer_indexing_pois_blocklist
           indexer_affected_pois ==
               PoiBlocklist_affected_pois_metadata(blocklist.v, indexer[i].deployments)
       IN IF ~blocklist.some
          THEN /\ Goto(i, "progress")
               /\ UNCHANGED local
          ELSE /\ Goto(i, "poi_lock")
               /\ local' = [local EXCEPT ![i].indexer_affected_pois = indexer_affected_pois]
    /\ Logged(i, <<Call("check_poi", NoArgs)>>)
    /\ UNCHANGED <<fetch_vars, state, net, indexers, indexer, indexer_host_resolver,
                   pois_resolver, compiler, result>>

\* internal.rs 692-702: no blocklist, or no affected deployment: ALLOWED, no probe
poi_step(i) ==
    /\ Running /\ pc[i] = "poi"
    /\ LET blocklist == state.indexer_indexing_pois_blocklist
           indexer_affected_pois ==
               PoiBlocklist_affected_pois_metadata(blocklist.v, indexer[i].deployments)
       IN IF ~blocklist.some
          THEN /\ Goto(i, "progress")
               /\ UNCHANGED local
          ELSE IF indexer_affected_pois = {}
          THEN /\ Goto(i, "progress")
               /\ UNCHANGED local
          ELSE /\ Goto(i, "poi_lock")
               /\ local' = [local EXCEPT ![i].indexer_affected_pois = indexer_affected_pois]
    /\ Logged(i, <<Call("check_poi", NoArgs)>>)
    /\ UNCHANGED <<fetch_vars, state, net, indexers, indexer, indexer_host_resolver,
                   pois_resolver, compiler, result>>

\* internal.rs 706: pois_resolver.lock().await
poi_lock(i) ==
    /\ Running /\ pc[i] = "poi_lock"
    /\ pois_resolver = 0
    /\ pois_resolver' = i
    /\ Goto(i, "poi_resolve")
    /\ Logged(i, <<Call("lock_pois_resolver", NoArgs)>>)
    /\ UNCHANGED <<fetch_vars, state, net, indexers, indexer, local, indexer_host_resolver,
                   compiler, result>>

\* the error of retain is ignored: an indexer left without a healthy deployment
\* goes on (Vec1::retain keeps one element when it fails)
poi_resolve_keeps_empty(i) ==
    /\ Running /\ pc[i] = "poi_resolve"
    /\ pois_resolver' = 0
    /\ LET blocklist == state.indexer_indexing_pois_blocklist.v
           answer == net[i].poi
           poi_result == Restrict(answer.v, local[i].indexer_affected_pois)
           check_result == PoiBlocklist_check(blocklist, poi_result)
           retained == retain_deployments(indexer[i].deployments, check_result)
       IN IF ~answer.ok
          THEN /\ ReturnNone(i, <<Call("resolve_poi", NoArgs)>>)
               /\ UNCHANGED indexer
          ELSE /\ Goto(i, "progress")
               /\ Logged(i, <<Call("resolve_poi", NoArgs)>>)
               /\ indexer' = [indexer EXCEPT ![i].deployments =
                                 IF retained = <<>> THEN <<@[1]>> ELSE retained]
    /\ UNCHANGED <<fetch_vars, state, net, indexers, local, indexer_host_resolver, compiler, result>>

\* the guard of the POI resolver is not dropped when the step ends
poi_resolve_keeps_guard(i) ==
    /\ Running /\ pc[i] = "poi_resolve"
    /\ LET blocklist == state.indexer_indexing_pois_blocklist.v
           answer == net[i].poi
           poi_result == Restrict(answer.v, local[i].indexer_affected_pois)
           check_result == PoiBlocklist_check(blocklist, poi_result)
           retained == retain_deployments(indexer[i].deployments, check_result)
       IN IF ~answer.ok
          THEN /\ ReturnNone(i, <<Call("resolve_poi", NoArgs)>>)
               /\ UNCHANGED indexer
          ELSE IF retained = <<>>
          THEN /\ ReturnNone(i, <<Call("resolve_poi", NoArgs)>>)
               /\ UNCHANGED indexer
          ELSE /\ Goto(i, "progress")
               /\ Logged(i, <<Call("resolve_poi", NoArgs)>>)
               /\ indexer' = [indexer EXCEPT ![i].deployments = retained]
    /\ UNCHANGED <<fetch_vars, state, net, indexers, local, indexer_host_resolver,
                   pois_resolver, compiler, result>>

\* internal.rs 707-728: the POI resolver answers (the guard is dropped at the end
\* of the block, also when `?` returns the error)
poi_resolve(i) ==
    /\ Running /\ pc[i] = "poi_resolve"
    /\ pois_resolver' = 0
    /\ LET blocklist == state.indexer_indexing_pois_blocklist.v
           answer == net[i].poi
           poi_result == Restrict(answer.v, local[i].indexer_affected_pois)
           check_result == PoiBlocklist_check(blocklist, poi_result)
           retained == retain_deployments(indexer[i].deployments, check_result)
       IN IF ~answer.ok
          THEN /\ ReturnNone(i, <<Call("resolve_poi", NoArgs)>>)
               /\ UNCHANGED indexer
          ELSE IF retained = <<>>
          THEN /\ ReturnNone(i, <<Call("resolve_poi", NoArgs)>>)
               /\ UNCHANGED indexer
          ELSE /\ Goto(i, "progress")
               /\ Logged(i, <<Call("resolve_poi", NoArgs)>>)
               /\ indexer' = [indexer EXCEPT ![i].deployments = retained]
    /\ UNCHANGED <<fetch_vars, state, net, indexers, local, indexer_host_resolver, compiler, result>>

\* a deployment missing from the answer is taken for a failure of the probe
progress_step_requires_all(i) ==
    /\ Running /\ pc[i] = "progress"
    /\ LET answer == net[i].progress
           sent == <<Call("resolve_progress", indexer[i].deployments)>>
       IN IF ~answer.ok \/ ~(Range(indexer[i].deployments) \subseteq DOMAIN answer.v)
          THEN /\ ReturnNone(i, sent)
               /\ UNCHANGED indexer
          ELSE /\ Goto(i, "cost_model")
               /\ Logged(i, sent)
               /\ indexer' = [indexer EXCEPT
                      ![i].indexings_progress = indexing_progress(answer.v)]
    /\ UNCHANGED <<fetch_vars, state, net, indexers, local, indexer_host_resolver,
                   pois_resolver, compiler, result>>

\* the probe is issued for the deployments the registry listed, also for those
\* the POI step removed
progress_step_sends_all(i) ==
    /\ Running /\ pc[i] = "progress"
    /\ LET answer == net[i].progress
           sent == <<Call("resolve_progress", indexers[i].deployments)>>
       IN IF ~answer.ok
          THEN /\ ReturnNone(i, sent)
               /\ UNCHANGED indexer
          ELSE /\ Goto(i, "cost_model")
               /\ Logged(i, sent)
               /\ indexer' = [indexer EXCEPT
                      ![i].indexings_progress = indexing_progress(answer.v)]
    /\ UNCHANGED <<fetch_vars, state, net, indexers, local, indexer_host_resolver,
                   pois_resolver, compiler, result>>

\* internal.rs 736-765: the progress resolver answers
progress_step(i) ==
    /\ Running /\ pc[i] = "progress"
    /\ LET answer == net[i].progress
           sent == <<Call("resolve_progress", indexer[i].deployments)>>
       IN IF ~answer.ok
          THEN /\ ReturnNone(i, sent)
               /\ UNCHANGED indexer
          ELSE /\ Goto(i, "cost_model")
               /\ Logged(i, sent)
               /\ indexer' = [indexer EXCEPT
                      ![i].indexings_progress = indexing_progress(answer.v)]
    /\ UNCHANGED <<fetch_vars, state, net, indexers, local, indexer_host_resolver,
                   pois_resolver, compiler, result>>

\* a failure of the cost model resolver is propagated like the failure of the
\* other probes
cost_model_step_fatal(i) ==
    /\ Running /\ pc[i] = "cost_model"
    /\ LET answer == net[i].cost
           sent == <<Call("resolve_cost_models", indexer[i].deployments)>>
       IN IF ~answer.ok
          THEN /\ ReturnNone(i, sent)
               /\ UNCHANGED local
          ELSE IF answer.v = EmptyMap
          THEN /\ Goto(i, "done")
               /\ Logged(i, sent)
               /\ UNCHANGED local
          ELSE /\ Goto(i, "compile_lock")
               /\ Logged(i, sent)
               /\ local' = [local EXCEPT ![i].indexings_cost_models = answer.v]
    /\ UNCHANGED <<fetch_vars, state, net, indexers, indexer, indexer_host_resolver,
                   pois_resolver, compiler, result>>

\* internal.rs 774-785: the cost model resolver answers
cost_model_step(i) ==
    /\ Running /\ pc[i] = "cost_model"
    /\ LET answer == net[i].cost
       IN IF ~answer.ok
          THEN /\ Goto(i, "done")
               /\ UNCHANGED local
          ELSE IF answer.v = EmptyMap
          THEN /\ Goto(i, "done")
               /\ UNCHANGED local
          ELSE /\ Goto(i, "compile_lock")
               /\ local' = [local EXCEPT ![i].indexings_cost_models = answer.v]
    /\ Logged(i, <<Call("resolve_cost_models", indexer[i].deployments)>>)
    /\ UNCHANGED <<fetch_vars, state, net, indexers, indexer, indexer_host_resolver,
                   pois_resolver, compiler, result>>

\* internal.rs 789: compiler.lock().await
compile_lock(i) ==
    /\ Running /\ pc[i] = "compile_lock"
    /\ compiler = 0
    /\ compiler' = i
    /\ Goto(i, "compile")
    /\ Logged(i, <<Call("lock_compiler", NoArgs)>>)
    /\ UNCHANGED <<fetch_vars, state, net, indexers, indexer, local, indexer_host_resolver,
                   pois_resolver, result>>

\* internal.rs 790-805: compile the sources, release the compiler, Some((id, indexer))
compile_step(i) ==
    /\ Running /\ pc[i] = "compile"
    /\ compiler' = 0
    /\ indexer' = [indexer EXCEPT
           ![i].indexings_cost_model = compile_cost_models(local[i].indexings_cost_models)]
    /\ Goto(i, "done")
    /\ Logged(i, <<Call("compile", NoArgs)>>)
    /\ UNCHANGED <<fetch_vars, state, net, indexers, local, indexer_host_resolver,
                   pois_resolver, result>>

\* the is_empty check is missing: an empty map is returned as Ok
collect_indexers_info_no_empty_check(done) ==
    [status |-> "Ok", error |-> "", v |-> [i \in done |-> indexer[i]]]

\* internal.rs 556-566: join_all is ready, the Some values are collected
collect_indexers_info(done) ==
    IF done = {}
    THEN [status |-> "Err", error |-> "no valid indexers found", v |-> EmptyMap]
    ELSE [status |-> "Ok", error |-> "", v |-> [i \in done |-> indexer[i]]]

process_indexers_info_return ==
    /\ Running
    /\ \A i \in Tasks : pc[i] \in {"done", "dropped"}
    /\ result' = collect_indexers_info({i \in Tasks : pc[i] = "done"})
    /\ UNCHANGED <<client, indexers_info, subgraphs_info, debug, state, net, indexers,
                   indexer, pc, local, indexer_host_resolver, pois_resolver, compiler, log,
                   topology_vars, request_vars>>

Next ==
    \/ \E i \in Tasks : addr_step(i)
    \/ \E i \in Tasks : host_lock(i)
    \/ \E i \in Tasks : host_resolve(i)
    \/ \E i \in Tasks : agent_version_step(i)
    \/ \E i \in Tasks : graph_node_version_step(i)
    \/ \E i \in Tasks : poi_step(i)
    \/ \E i \in Tasks : poi_lock(i)
    \/ \E i \in Tasks : poi_resolve(i)
    \/ \E i \in Tasks : progress_step(i)
    \/ \E i \in Tasks : cost_model_step(i)
    \/ \E i \in Tasks : compile_lock(i)
    \/ \E i \in Tasks : compile_step(i)
    \/ process_indexers_info_return /\ UNCHANGED update_vars

\* ---------------------------------------------------------- pre-processing
\* subgraph::types::fetch_indexers: an allocation and an indexer as fetched
Allocation(id, allocated_tokens, deployment) ==
    [id |-> id, allocated_tokens |-> allocated_tokens,
     subgraph_deployment |-> [id |-> deployment]]

Indexer(id, url, staked_tokens, allocations) ==
    [id |-> id, url |-> url, staked_tokens |-> staked_tokens, allocations |-> allocations]

\* the elements of a set of ids in ascending order
Ascending(S) ==
    IF S = {} THEN <<>>
    ELSE CHOOSE s \in [1..Cardinality(S) -> S] :
             \A a, b \in DOMAIN s : a < b => s[a] < s[b]

\* the deployment ids in ascending order, whatever the order of the allocations
unique_sorted(ids) == Ascending(Range(ids))

\* Itertools::unique: every element once, in the order of first occurrence
unique(ids) ==
    LET F[k \in 0..Len(ids)] ==
            IF k = 0 THEN <<>>
            ELSE IF ids[k] \in Range(F[k - 1]) THEN F[k - 1]
            ELSE Append(F[k - 1], ids[k])
    IN F[Len(ids)]

\* the allocations on the given deployment, in the order of the list
allocations_on(allocations, deployment_id) ==
    SelectSeq(allocations, LAMBDA alloc : alloc.subgraph_deployment.id = deployment_id)

\* internal.rs 341-355: the id of the first allocation of the list on the deployment
indexing_largest_allocation(allocations, deployment_id) ==
    Head(allocations_on(allocations, deployment_id)).id

RECURSIVE sum(_)
sum(tokens) == IF tokens = <<>> THEN 0 ELSE Head(tokens) + sum(Tail(tokens))

\* only the first allocation on the deployment is counted
indexing_total_allocated_tokens_first_only(allocations, deployment_id) ==
    Head(allocations_on(allocations, deployment_id)).allocated_tokens

\* internal.rs 357-372: the sum of allocated_tokens over the allocations on the
\* deployment
indexing_total_allocated_tokens(allocations, deployment_id) ==
    LET on == allocations_on(allocations, deployment_id)
    IN sum([k \in DOMAIN on |-> on[k].allocated_tokens])

\* the allocations are looked at before the URL
try_into_internal_indexer_info_allocations_first(fetched) ==
    IF fetched.allocations = <<>> THEN Fail("no allocations")
    ELSE IF ~fetched.url.some THEN Fail("missing URL")
    ELSE IF ~parse_url(fetched.url.v).ok THEN Fail("URL parsing failed")
    ELSE IF ~StartsWith(parse_url(fetched.url.v).v.scheme, <<"h", "t", "t", "p">>)
    THEN Fail("invalid URL: invalid scheme")
    ELSE IF ~parse_url(fetched.url.v).v.host.some THEN Fail("invalid URL: missing host")
    ELSE LET deployment_ids ==
                 unique([k \in DOMAIN fetched.allocations |->
                            fetched.allocations[k].subgraph_deployment.id])
         IN Ok([id |-> fetched.id,
                url |-> parse_url(fetched.url.v).v,
                staked_tokens |-> fetched.staked_tokens,
                deployments |-> deployment_ids,
                largest_allocation |->
                    [d \in Range(deployment_ids) |->
                        indexing_largest_allocation(fetched.allocations, d)],
                total_allocated_tokens |->
                    [d \in Range(deployment_ids) |->
                        indexing_total_allocated_tokens(fetched.allocations, d)],
                indexer_agent_version |-> VersionPlaceholder,
                graph_node_version |-> VersionPlaceholder,
                indexings_progress |-> EmptyMap,
                indexings_cost_model |-> EmptyMap])

\* the two maps are collected for the first deployment of the indexer only
try_into_internal_indexer_info_first_keyed(fetched) ==
    IF ~fetched.url.some THEN Fail("missing URL")
    ELSE LET indexer_url == parse_url(fetched.url.v)
         IN IF ~indexer_url.ok THEN Fail("URL parsing failed")
            ELSE IF ~StartsWith(indexer_url.v.scheme, <<"h", "t", "t", "p">>)
            THEN Fail("invalid URL: invalid scheme")
            ELSE IF ~indexer_url.v.host.some THEN Fail("invalid URL: missing host")
            ELSE IF fetched.allocations = <<>> THEN Fail("no allocations")
            ELSE LET indexer_deployment_ids ==
                         unique([k \in DOMAIN fetched.allocations |->
                                    fetched.allocations[k].subgraph_deployment.id])
                 IN IF indexer_deployment_ids = <<>> THEN Fail("no deployments")
                    ELSE Ok([id |-> fetched.id,
                             url |-> indexer_url.v,
                             staked_tokens |-> fetched.staked_tokens,
                             deployments |-> indexer_deployment_ids,
                             largest_allocation |->
                                 [d \in {indexer_deployment_ids[1]} |->
                                     indexing_largest_allocation(fetched.allocations, d)],
                             total_allocated_tokens |->
                                 [d \in {indexer_deployment_ids[1]} |->
                                     indexing_total_allocated_tokens(fetched.allocations, d)],
                             indexer_agent_version |-> VersionPlaceholder,
                             graph_node_version |-> VersionPlaceholder,
                             indexings_progress |-> EmptyMap,
                             indexings_cost_model |-> EmptyMap])

\* internal.rs 301-386: Ok(IndexerInfo) or Err(message)
try_into_internal_indexer_info(fetched) ==
    IF ~fetched.url.some THEN Fail("missing URL")
    ELSE LET indexer_url == parse_url(fetched.url.v)
         IN IF ~indexer_url.ok THEN Fail("URL parsing failed")
            ELSE IF ~StartsWith(indexer_url.v.scheme, <<"h", "t", "t", "p">>)
            THEN Fail("invalid URL: invalid scheme")
            ELSE IF ~indexer_url.v.host.some THEN Fail("invalid URL: missing host")
            ELSE IF fetched.allocations = <<>> THEN Fail("no allocations")
            ELSE LET indexer_deployment_ids ==
                         unique([k \in DOMAIN fetched.allocations |->
                                    fetched.allocations[k].subgraph_deployment.id])
                 IN IF indexer_deployment_ids = <<>> THEN Fail("no deployments")
                    ELSE Ok([id |-> fetched.id,
                             url |-> indexer_url.v,
                             staked_tokens |-> fetched.staked_tokens,
                             deployments |-> indexer_deployment_ids,
                             largest_allocation |->
                                 [d \in Range(indexer_deployment_ids) |->
                                     indexing_largest_allocation(fetched.allocations, d)],
                             total_allocated_tokens |->
                                 [d \in Range(indexer_deployment_ids) |->
                                     indexing_total_allocated_tokens(fetched.allocations, d)],
                             indexer_agent_version |-> VersionPlaceholder,
                             graph_node_version |-> VersionPlaceholder,
                             indexings_progress |-> EmptyMap,
                             indexings_cost_model |-> EmptyMap])

\* subgraph::types::fetch_subgraphs: a subgraph version and a subgraph as fetched
SubgraphVersion(version, deployment, manifest, allocations, transferred_to_l2) ==
    [version |-> version,
     subgraph_deployment |->
         [id |-> deployment, manifest |-> manifest, allocations |-> allocations,
          transferred_to_l2 |-> transferred_to_l2]]

Subgraph(id, id_on_l2, versions) ==
    [id |-> id, id_on_l2 |-> id_on_l2, versions |-> versions]

Manifest(network, start_block) == Some([network |-> network, start_block |-> start_block])

\* Option::and_then(|manifest| manifest.<field>)
and_then(manifest, field) == IF manifest.some THEN manifest.v[field] ELSE None

\* internal.rs 391-444: Ok(SubgraphInfo) or Err(message)
try_into_internal_subgraph_info(subgraph) ==
    LET versions ==
            [k \in DOMAIN subgraph.versions |->
                LET version == subgraph.versions[k]
                    deployment == version.subgraph_deployment
                IN [version |-> version.version,
                    deployment |->
                        [id |-> deployment.id,
                         allocations |->
                             [a \in DOMAIN deployment.allocations |->
                                 [id |-> deployment.allocations[a].id,
                                  indexer |-> deployment.allocations[a].indexer.id]],
                         manifest_network |-> and_then(deployment.manifest, "network"),
                         manifest_start_block |-> and_then(deployment.manifest, "start_block"),
                         transferred_to_l2 |-> deployment.transferred_to_l2]]]
    IN IF versions = <<>> THEN Fail("no valid versions found")
       ELSE Ok([id |-> subgraph.id, id_on_l2 |-> subgraph.id_on_l2, versions |-> versions])

\* .into_iter().filter_map(...).collect::<HashMap<_, _>>(), given the result of
\* the conversion of every fetched record: every converted record under its id
\* (of two records with one id the later one stays)
collect_converted(converted) ==
    LET valid == {k \in DOMAIN converted : converted[k].ok}
    IN [id \in {converted[k].v.id : k \in valid} |->
           LET last == CHOOSE k \in valid :
                           /\ converted[k].v.id = id
                           /\ \A j \in valid : converted[j].v.id = id => j <= k
           IN converted[last].v]

\* the "filtering-out" messages of the filter_map, in the order of the list
filtering_out(fetched, converted) ==
    LET invalid == SelectSeq([k \in DOMAIN fetched |-> k], LAMBDA k : ~converted[k].ok)
    IN [j \in DOMAIN invalid |->
           [id |-> fetched[invalid[j]].id, err |-> converted[invalid[j]].v]]

Returned(status, error, v) == [status |-> status, error |-> error, v |-> v]
Pending == Returned("pending", "", EmptyMap)

\* the is_empty check of the collected map is missing
indexers_or_error_no_empty_check(collected) == Returned("Ok", "", collected)

\* internal.rs 242-246
indexers_or_error(collected) ==
    IF collected = EmptyMap
    THEN Returned("Err", "no valid indexers found", EmptyMap)
    ELSE Returned("Ok", "", collected)

\* internal.rs 291-295
subgraphs_or_error(collected) ==
    IF collected = EmptyMap
    THEN Returned("Err", "no valid subgraphs found", EmptyMap)
    ELSE Returned("Ok", "", collected)

\* the variables of process_indexers_info
process_vars == <<state, net, indexers, indexer, pc, local, indexer_host_resolver,
                  pois_resolver, compiler, log, result>>

\* internal.rs 207-247: client.fetch_indexers() answers and the function returns
fetch_and_pre_process_indexers_info ==
    /\ indexers_info.status = "pending"
    /\ LET answer == client.indexers
       IN IF ~answer.ok
          THEN /\ indexers_info' = Returned("Err", "indexers fetch failed", EmptyMap)
               /\ UNCHANGED debug
          ELSE IF answer.v = <<>>
          THEN /\ indexers_info' = Returned("Err", "empty indexers fetch", EmptyMap)
               /\ UNCHANGED debug
          ELSE LET converted == [k \in DOMAIN answer.v |->
                                    try_into_internal_indexer_info(answer.v[k])]
               IN /\ indexers_info' = indexers_or_error(collect_converted(converted))
                  /\ debug' = [debug EXCEPT !.indexers = filtering_out(answer.v, converted)]
    /\ UNCHANGED <<client, subgraphs_info>>

\* internal.rs 259-296: client.fetch_subgraphs() answers and the function returns
fetch_and_pre_process_subgraphs_info ==
    /\ subgraphs_info.status = "pending"
    /\ LET answer == client.subgraphs
       IN IF ~answer.ok
          THEN /\ subgraphs_info' = Returned("Err", "subgraphs fetch failed", EmptyMap)
               /\ UNCHANGED debug
          ELSE IF answer.v = <<>>
          THEN /\ subgraphs_info' = Returned("Err", "empty subgraphs fetch", EmptyMap)
               /\ UNCHANGED debug
          ELSE LET converted == [k \in DOMAIN answer.v |->
                                    try_into_internal_subgraph_info(answer.v[k])]
               IN /\ subgraphs_info' = subgraphs_or_error(collect_converted(converted))
                  /\ debug' = [debug EXCEPT !.subgraphs = filtering_out(answer.v, converted)]
    /\ UNCHANGED <<client, indexers_info>>

\* the two functions, called outside fetch_update
NextFetch ==
    \/ /\ fetch_and_pre_process_indexers_info
       /\ UNCHANGED <<process_vars, update_vars, topology_vars, request_vars>>
    \/ /\ fetch_and_pre_process_subgraphs_info
       /\ UNCHANGED <<process_vars, update_vars, topology_vars, request_vars>>

\* ------------------------------------------------------------ fetch_update
Sides == {"indexers", "subgraphs"}

\* the future of fetch_update is polled: it is not ready
Updating == update.status = "pending"

\* internal.rs 154, 175: client.lock().await is ready. try_join polls its first
\* future first, so that the indexers side is the first to take the free lock
client_lock(s) ==
    /\ Updating /\ side[s] = "lock" /\ subgraph_client = "free"
    /\ s = "subgraphs" => side.indexers # "lock"
    /\ subgraph_client' = s
    /\ side' = [side EXCEPT ![s] = "fetch"]
    /\ UNCHANGED <<update, client, indexers_info, subgraphs_info, debug, process_vars,
                   topology_vars, request_vars>>

\* internal.rs 151, 192: try_join is ready with the first error of a side, and
\* `?` returns it; the future of the other side is dropped
try_join_err(s, error) ==
    /\ side' = [side EXCEPT ![s] = "Err"]
    /\ update' = Returned("Err", error, EmptyMap)

\* the join does not wait for the other side
try_join_ok_select(s, indexers_value, subgraphs_value) ==
    /\ side' = [side EXCEPT ![s] = "Ok"]
    /\ update' = Returned("Ok", "", [indexers_info |-> indexers_value,
                                     subgraphs_info |-> subgraphs_value])

\* internal.rs 151, 192-194: a side is ready with Ok; when the other side is
\* ready too, try_join is ready with the two values and snapshot::new_from is
\* called with them
try_join_ok(s, indexers_value, subgraphs_value) ==
    /\ side' = [side EXCEPT ![s] = "Ok"]
    /\ update' = IF \A o \in Sides \ {s} : side[o] = "Ok"
                 THEN Returned("Ok", "", [indexers_info |-> indexers_value,
                                          subgraphs_info |-> subgraphs_value])
                 ELSE update

\* the MutexGuards of the dropped tasks of process_indexers_info are dropped
drop_process_indexers_info ==
    /\ indexer_host_resolver' = 0
    /\ pois_resolver' = 0
    /\ compiler' = 0
    /\ UNCHANGED <<state, net, indexers, indexer, pc, local, log, result>>

\* internal.rs 153-172: the indexers fetch returns within the timeout, the lock
\* is released at the end of the block, and on Ok process_indexers_info is
\* called (internal.rs 447-466: one task per indexer)
indexers_info_fetched ==
    /\ Updating /\ side.indexers = "fetch"
    /\ fetch_and_pre_process_indexers_info
    /\ subgraph_client' = "free"
    /\ UNCHANGED <<topology_vars, request_vars>>
    /\ IF indexers_info'.status = "Err"
       THEN /\ try_join_err("indexers",
                            "indexers info fetch failed: " \o indexers_info'.error)
            /\ UNCHANGED process_vars
       ELSE /\ side' = [side EXCEPT !.indexers = "process"]
            /\ indexers' = indexers_info'.v
            /\ indexer' = indexers_info'.v
            /\ pc' = [i \in DOMAIN indexers_info'.v |-> "addr"]
            /\ local' = [i \in DOMAIN indexers_info'.v |->
                            [agent_version |-> VersionPlaceholder,
                             indexer_affected_pois |-> {},
                             indexings_cost_models |-> EmptyMap]]
            /\ log' = [i \in DOMAIN indexers_info'.v |-> <<>>]
            /\ result' = Pending
            /\ UNCHANGED <<update, state, net, indexer_host_resolver, pois_resolver,
                           compiler>>

\* internal.rs 155-162: the timeout elapses before the indexers fetch returns
indexers_info_timed_out ==
    /\ Updating /\ side.indexers = "fetch"
    /\ subgraph_client' = "free"
    /\ try_join_err("indexers", "indexers info fetch timed out")
    /\ UNCHANGED <<client, indexers_info, subgraphs_info, debug, process_vars,
                   topology_vars, request_vars>>

\* internal.rs 172, 556-566: process_indexers_info returns its result to try_join
process_indexers_info_returned ==
    /\ side.indexers = "process"
    /\ process_indexers_info_return
    /\ IF result'.status = "Err"
       THEN /\ try_join_err("indexers", result'.error)
            /\ subgraph_client' = "free"
       ELSE /\ try_join_ok("indexers", result'.v, subgraphs_info.v)
            /\ UNCHANGED subgraph_client

\* internal.rs 175-189: the subgraphs fetch returns within the timeout
subgraphs_info_fetched ==
    /\ Updating /\ side.subgraphs = "fetch"
    /\ fetch_and_pre_process_subgraphs_info
    /\ subgraph_client' = "free"
    /\ UNCHANGED <<topology_vars, request_vars>>
    /\ IF subgraphs_info'.status = "Err"
       THEN /\ try_join_err("subgraphs",
                            "subgraphs info fetch failed: " \o subgraphs_info'.error)
            /\ drop_process_indexers_info
       ELSE /\ try_join_ok("subgraphs", result.v, subgraphs_info'.v)
            /\ UNCHANGED process_vars

\* internal.rs 176-183: the timeout elapses before the subgraphs fetch returns
subgraphs_info_timed_out ==
    /\ Updating /\ side.subgraphs = "fetch"
    /\ subgraph_client' = "free"
    /\ try_join_err("subgraphs", "subgraphs info fetch timed out")
    /\ drop_process_indexers_info
    /\ UNCHANGED <<client, indexers_info, subgraphs_info, debug, topology_vars, request_vars>>

NextUpdate ==
    \/ \E s \in Sides : client_lock(s)
    \/ indexers_info_fetched
    \/ indexers_info_timed_out
    \/ subgraphs_info_fetched
    \/ subgraphs_info_timed_out
    \/ \E i \in Tasks : addr_step(i)
    \/ \E i \in Tasks : host_lock(i)
    \/ \E i \in Tasks : host_resolve(i)
    \/ \E i \in Tasks : agent_version_step(i)
    \/ \E i \in Tasks : graph_node_version_step(i)
    \/ \E i \in Tasks : poi_step(i)
    \/ \E i \in Tasks : poi_lock(i)
    \/ \E i \in Tasks : poi_resolve(i)
    \/ \E i \in Tasks : progress_step(i)
    \/ \E i \in Tasks : cost_model_step(i)
    \/ \E i \in Tasks : compile_lock(i)
    \/ \E i \in Tasks : compile_step(i)
    \/ process_indexers_info_returned

\* ------------------------------------------------- topology: GraphNetwork
\* only the first subgraph with a version of the deployment is listed
deployment_subgraphs_first_only(fetched, id) ==
    LET with == {k \in DOMAIN fetched :
                    \E v \in DOMAIN fetched[k].versions :
                        fetched[k].versions[v].subgraph_deployment.id = id}
    IN {fetched[k].id : k \in {k \in with : \A j \in with : k <= j}}

\* network.rs 170-179: the ids of the subgraphs with a version of the deployment
deployment_subgraphs(fetched, id) ==
    {fetched[k].id : k \in {k \in DOMAIN fetched :
        \E v \in DOMAIN fetched[k].versions :
            fetched[k].versions[v].subgraph_deployment.id = id}}

\* the flag of the registry is taken as it is
deployment_transferred_to_l2_flag_only(subgraph_deployment) ==
    subgraph_deployment.transferred_to_l2

\* network.rs 227-229
deployment_transferred_to_l2(subgraph_deployment) ==
    /\ subgraph_deployment.transferred_to_l2
    /\ subgraph_deployment.allocations = <<>>

\* network.rs 182-213: the indexers of the allocations of a deployment whose
\* URL parses; the last allocation of an indexer gives its record, the sum of
\* its allocations the allocated tokens
deployment_indexers(subgraph_deployment) ==
    LET parsed == SelectSeq(subgraph_deployment.allocations,
                            LAMBDA a : IF a.indexer.url.some
                                       THEN parse_url(a.indexer.url.v).ok ELSE FALSE)
        group(i) == SelectSeq(parsed, LAMBDA a : a.indexer.id = i)
    IN [i \in {parsed[k].indexer.id : k \in DOMAIN parsed} |->
           LET allocations == group(i)
               last == allocations[Len(allocations)]
           IN [id |-> i,
               url |-> parse_url(last.indexer.url.v).v,
               staked_tokens |-> last.indexer.staked_tokens,
               largest_allocation |-> last.id,
               allocated_tokens |->
                   sum([k \in DOMAIN allocations |-> allocations[k].allocated_tokens])]]

\* the answers of the IP blocker are not looked at
retain_not_blocked_keeps_all(grouped, blocked) ==
    grouped

\* network.rs 215-225: the indexers for whose URL IpBlocker::is_ip_blocked
\* answers Err (the URLs in `blocked`) are removed
retain_not_blocked(grouped, blocked) ==
    Restrict(grouped, {i \in DOMAIN grouped : grouped[i].url \notin blocked})

\* network.rs 159-238: the Deployment of one subgraph version, or None;
\* `blocked` are the URLs for which IpBlocker::is_ip_blocked answers Err
GraphNetwork_deployment(fetched, version, blocked) ==
    LET subgraph_deployment == version.subgraph_deployment
        id == subgraph_deployment.id
        manifest == subgraph_deployment.manifest
    IN IF ~manifest.some THEN None
       ELSE IF ~manifest.v.network.some THEN None
       ELSE
       Some([id |-> id,
             manifest |-> [network |-> manifest.v.network.v,
                           min_block |-> IF manifest.v.start_block.some
                                         THEN manifest.v.start_block.v ELSE 0],
             subgraphs |-> deployment_subgraphs(fetched, id),
             indexers |-> retain_not_blocked(deployment_indexers(subgraph_deployment),
                                             blocked),
             transferred_to_l2 |-> deployment_transferred_to_l2(subgraph_deployment)])

\* the calls of GraphNetwork::deployment in one call of GraphNetwork::subgraphs:
\* one per version of every subgraph fetched
deployment_calls(fetched) ==
    UNION {{<<k, v>> : v \in DOMAIN fetched[k].versions} : k \in DOMAIN fetched}

\* what IpBlocker::is_ip_blocked can answer during one call of
\* GraphNetwork::subgraphs: per call of GraphNetwork::deployment, the URLs of
\* its indexers that are reported as blocked
IpBlockerAnswers(fetched) ==
    LET asked(call) ==
            LET subgraph_deployment ==
                    fetched[call[1]].versions[call[2]].subgraph_deployment
                grouped == IF /\ subgraph_deployment.manifest.some
                              /\ subgraph_deployment.manifest.v.network.some
                           THEN deployment_indexers(subgraph_deployment)
                           ELSE EmptyMap
            IN {grouped[i].url : i \in DOMAIN grouped}
        urls == UNION {asked(call) : call \in deployment_calls(fetched)}
    IN {blocked \in [deployment_calls(fetched) -> SUBSET urls] :
           \A call \in deployment_calls(fetched) : blocked[call] \subseteq asked(call)}

\* network.rs 131-157: the lookup table of the subgraphs, keyed by their id;
\* blocked[<<k, v>>] are the URLs reported as blocked while the deployment of
\* version v of the k-th subgraph is built
GraphNetwork_subgraphs(fetched, blocked) ==
    LET built(k) ==
            LET versions == fetched[k].versions
                options == [v \in DOMAIN versions |->
                               GraphNetwork_deployment(fetched, versions[v],
                                                       blocked[<<k, v>>])]
                some == SelectSeq(options, LAMBDA o : o.some)
            IN [deployments |-> [j \in DOMAIN some |-> some[j].v],
                id |-> fetched[k].id,
                l2_id |-> fetched[k].id_on_l2]
    IN [id \in {fetched[k].id : k \in DOMAIN fetched} |->
           built(CHOOSE k \in DOMAIN fetched :
                     /\ fetched[k].id = id
                     /\ \A j \in DOMAIN fetched : fetched[j].id = id => j <= k)]

\* every Deployment held by a subgraph of the table
deployments_of(subgraphs) ==
    UNION {Range(subgraphs[s].deployments) : s \in DOMAIN subgraphs}

\* only the deployments with an indexer are collected
GraphNetwork_deployments_served(subgraphs) ==
    LET all == {d \in deployments_of(subgraphs) : DOMAIN d.indexers # {}}
        ids == {d.id : d \in all}
    IN {table \in [ids -> all] : \A id \in ids : table[id].id = id}

\* network.rs 99-106: the lookup tables of the deployments that collect() can
\* build: of the Deployments with one id, the last in the order of values() stays
GraphNetwork_deployments(subgraphs) ==
    LET all == deployments_of(subgraphs)
        ids == {d.id : d \in all}
    IN {table \in [ids -> all] : \A id \in ids : table[id].id = id}

\* network.rs 109-117: the lookup tables of the indexers that collect() can build
GraphNetwork_indexers(subgraphs) ==
    LET all == UNION {Range(d.indexers) : d \in deployments_of(subgraphs)}
        ids == {i.id : i \in all}
    IN {table \in [ids -> all] : \A id \in ids : table[id].id = id}

\* an Eventual: the value it holds and the number of the poll the value comes
\* from, 0 while it holds no value
Eventual(poll, v) == [poll |-> poll, v |-> v]

\* the variables of the network service (graph-gateway)
gateway_vars == <<process_vars, client, indexers_info, subgraphs_info, debug, update_vars>>

\* network_subgraph.rs 48-66: an allocation as the registry lists it
NetworkAllocation(id, indexer_id, url, allocated_tokens) ==
    [id |-> id, allocated_tokens |-> allocated_tokens,
     indexer |-> [id |-> indexer_id, url |-> url, staked_tokens |-> 1]]

\* the registry lists one subgraph with one version, served by indexer 1
SubgraphsOne ==
    <<Subgraph(1, None,
               <<SubgraphVersion(1, 1, Manifest(Some("mainnet"), Some(1)),
                                 <<NetworkAllocation(1, 1, Some(UrlHttp), 1)>>, FALSE)>>)>>

\* the registry lists a second version of the subgraph, served by indexer 2
SubgraphsTwo ==
    <<Subgraph(1, None,
               <<SubgraphVersion(1, 1, Manifest(Some("mainnet"), Some(1)),
                                 <<NetworkAllocation(1, 1, Some(UrlHttp), 1)>>, FALSE),
                 SubgraphVersion(2, 2, Manifest(Some("mainnet"), None),
                                 <<NetworkAllocation(2, 2, Some(UrlHttp), 1)>>, FALSE)>>)>>

\* the answers of the registry to the paginated query of a poll
RegistryAnswers == {Fail(<<>>), Ok(<<>>), Ok(SubgraphsOne), Ok(SubgraphsTwo)}

\* the registry changes its answer, as long as a poll is left to see it
registry_change ==
    /\ polls < MaxPolls
    /\ registry' \in RegistryAnswers \ {registry}
    /\ UNCHANGED <<timer, polls, polling, outcomes, network_subgraphs, mapping,
                   graph_network, new, ip_blocker, gateway_vars, request_vars>>

\* network_subgraph.rs 88: eventuals::timer writes the next tick
timer_tick ==
    /\ ~timer
    /\ timer' = TRUE
    /\ UNCHANGED <<registry, polls, polling, outcomes, network_subgraphs, mapping,
                   graph_network, new, ip_blocker, gateway_vars, request_vars>>

\* pipe_async does not wait for the future of the previous tick, and the client
\* is not locked
poll_start_unawaited ==
    /\ timer /\ polls < MaxPolls
    /\ timer' = FALSE
    /\ polls' = polls + 1
    /\ polling' = polling \cup {polls + 1}
    /\ UNCHANGED <<registry, outcomes, network_subgraphs, mapping, graph_network, new,
                   ip_blocker, gateway_vars, request_vars>>

\* the loop ends with the first poll that fails
poll_start_until_err ==
    /\ timer /\ polling = {} /\ polls < MaxPolls
    /\ \A k \in DOMAIN outcomes : outcomes[k] = "Ok"
    /\ timer' = FALSE
    /\ polls' = polls + 1
    /\ polling' = {polls + 1}
    /\ UNCHANGED <<registry, outcomes, network_subgraphs, mapping, graph_network, new,
                   ip_blocker, gateway_vars, request_vars>>

\* network_subgraph.rs 88-93: pipe_async takes the tick once the future of the
\* previous tick is ready; the closure locks the client and calls poll_subgraphs
poll_start ==
    /\ timer /\ polling = {} /\ polls < MaxPolls
    /\ timer' = FALSE
    /\ polls' = polls + 1
    /\ polling' = {polls + 1}
    /\ UNCHANGED <<registry, outcomes, network_subgraphs, mapping, graph_network, new,
                   ip_blocker, gateway_vars, request_vars>>

\* the is_empty check is missing: an empty list is written
poll_subgraphs_writes_empty(n) ==
    /\ n \in polling
    /\ polling' = polling \ {n}
    /\ IF registry.ok
       THEN /\ network_subgraphs' = Eventual(n, registry.v)
            /\ outcomes' = Append(outcomes, "Ok")
       ELSE /\ outcomes' = Append(outcomes, "Err")
            /\ UNCHANGED network_subgraphs
    /\ UNCHANGED <<registry, timer, polls, mapping, graph_network, new, ip_blocker,
                   gateway_vars, request_vars>>

\* network_subgraph.rs 93-95, 154-165: the paginated query answers and
\* poll_subgraphs returns; the closure logs an Err and releases the client
poll_subgraphs(n) ==
    /\ n \in polling
    /\ polling' = polling \ {n}
    /\ IF ~registry.ok
       THEN /\ outcomes' = Append(outcomes, "Err")
            /\ UNCHANGED network_subgraphs
       ELSE IF registry.v = <<>>
       THEN /\ outcomes' = Append(outcomes, "Err")
            /\ UNCHANGED network_subgraphs
       ELSE /\ network_subgraphs' = Eventual(n, registry.v)
            /\ outcomes' = Append(outcomes, "Ok")
    /\ UNCHANGED <<registry, timer, polls, mapping, graph_network, new, ip_blocker,
                   gateway_vars, request_vars>>

\* network.rs 94: the map task of `subgraphs` takes the new value of its source
map_subgraphs_next ==
    /\ mapping.poll = 0
    /\ network_subgraphs.poll # graph_network.subgraphs.poll
    /\ mapping' = network_subgraphs
    /\ UNCHANGED <<registry, timer, polls, polling, outcomes, network_subgraphs,
                   graph_network, new, ip_blocker, gateway_vars, request_vars>>

\* network.rs 94-96: Self::subgraphs is ready and its value is written
map_subgraphs_write ==
    /\ mapping.poll # 0
    /\ \E blocked \in IpBlockerAnswers(mapping.v) :
           /\ ip_blocker' = blocked
           /\ graph_network' =
                  [graph_network EXCEPT
                      !.subgraphs = Eventual(mapping.poll,
                                             GraphNetwork_subgraphs(mapping.v, blocked))]
    /\ mapping' = Eventual(0, <<>>)
    /\ UNCHANGED <<registry, timer, polls, polling, outcomes, network_subgraphs, new,
                   gateway_vars, request_vars>>

\* network.rs 99-106: the map task of `deployments` takes the new value of
\* `subgraphs` and writes the table collected from it
map_deployments ==
    /\ graph_network.subgraphs.poll # graph_network.deployments.poll
    /\ \E table \in GraphNetwork_deployments(graph_network.subgraphs.v) :
           graph_network' =
               [graph_network EXCEPT
                   !.deployments = Eventual(graph_network.subgraphs.poll, table)]
    /\ UNCHANGED <<registry, timer, polls, polling, outcomes, network_subgraphs, mapping,
                   new, ip_blocker, gateway_vars, request_vars>>

\* network.rs 109-117: the map task of `indexers`
map_indexers ==
    /\ graph_network.subgraphs.poll # graph_network.indexers.poll
    /\ \E table \in GraphNetwork_indexers(graph_network.subgraphs.v) :
           graph_network' =
               [graph_network EXCEPT
                   !.indexers = Eventual(graph_network.subgraphs.poll, table)]
    /\ UNCHANGED <<registry, timer, polls, polling, outcomes, network_subgraphs, mapping,
                   new, ip_blocker, gateway_vars, request_vars>>

\* new returns as soon as `deployments` holds a value
new_return_after_deployments ==
    /\ new = "awaiting"
    /\ graph_network.deployments.poll # 0
    /\ new' = "returned"
    /\ UNCHANGED <<registry, timer, polls, polling, outcomes, network_subgraphs, mapping,
                   graph_network, ip_blocker, gateway_vars, request_vars>>

\* network.rs 119-128: deployments.value().await and indexers.value().await are
\* ready, and GraphNetwork::new returns
new_return ==
    /\ new = "awaiting"
    /\ graph_network.deployments.poll # 0
    /\ graph_network.indexers.poll # 0
    /\ new' = "returned"
    /\ UNCHANGED <<registry, timer, polls, polling, outcomes, network_subgraphs, mapping,
                   graph_network, ip_blocker, gateway_vars, request_vars>>

\* the tasks behind GraphNetwork::new
NextTopology ==
    \/ map_subgraphs_next
    \/ map_subgraphs_write
    \/ map_deployments
    \/ map_indexers
    \/ new_return

\* the poll loop of Client::create and the tasks behind GraphNetwork::new
NextPoll ==
    \/ registry_change
    \/ timer_tick
    \/ poll_start
    \/ \E n \in polling : poll_subgraphs(n)
    \/ map_subgraphs_next
    \/ map_subgraphs_write
    \/ map_deployments
    \/ map_indexers
    \/ new_return

\* ------------------------------------------ authorization of a client query
\* auth/methods/common.rs 7-9
is_deployment_authorized(authorized, deployment) ==
    authorized = <<>> \/ deployment \in Range(authorized)

\* one authorized deployment is enough
are_deployments_authorized_any(authorized, deployments) ==
    authorized = <<>> \/ \E k \in DOMAIN deployments : deployments[k] \in Range(authorized)

\* auth/methods/common.rs 15-23
are_deployments_authorized(authorized, deployments) ==
    authorized = <<>> \/ \A k \in DOMAIN deployments : deployments[k] \in Range(authorized)

\* auth/methods/common.rs 29-31
is_subgraph_authorized(authorized, subgraph) ==
    authorized = <<>> \/ subgraph \in Range(authorized)

\* auth/methods/common.rs 37-42
are_subgraphs_authorized(authorized, subgraphs) ==
    authorized = <<>> \/ \A k \in DOMAIN subgraphs : subgraphs[k] \in Range(authorized)

\* str::ends_with
EndsWith(text, suffix) ==
    /\ Len(text) >= Len(suffix)
    /\ SubSeq(text, Len(text) - Len(suffix) + 1, Len(text)) = suffix

\* every pattern is matched as a suffix of the origin
match_domain_suffix_always(pattern, origin) ==
    EndsWith(origin, SkipLeading(pattern, "*"))

\* auth/methods/common.rs 52-58: trim_start_matches('*') removes every leading '*'
match_domain(pattern, origin) ==
    IF pattern # <<>> /\ Head(pattern) = "*"
    THEN EndsWith(origin, SkipLeading(pattern, "*"))
    ELSE origin = pattern

\* auth/methods/common.rs 51-64
is_domain_authorized(authorized, origin) ==
    authorized = <<>> \/ \E k \in DOMAIN authorized : match_domain(authorized[k], origin)

\* the characters of the texts of domains, and the texts
DomainLetters == {"a", ".", "*"}
Domains == UNION {[1..n -> DomainLetters] : n \in 0..MaxDomainLen}

\* the lists of ids of a call, with repetitions
IdLists(ids) == UNION {[1..n -> ids] : n \in 0..MaxAuthorized}

\* a check returned: the function, its second argument and its value
Checked(fn, input, v) == Some([fn |-> fn, input |-> input, v |-> v])

\* the variables outside the authorization checks; a client query is checked
\* once by each function it needs, and the model follows one check
request_frame == <<gateway_vars, topology_vars, sql>>

\* a call of is_deployment_authorized on the authorized deployments of the key
call_is_deployment_authorized ==
    /\ ~auth.returned.some
    /\ \E deployment \in Deployments :
           auth' = [auth EXCEPT !.returned =
                       Checked("is_deployment_authorized", deployment,
                               is_deployment_authorized(auth.authorized.deployments,
                                                        deployment))]
    /\ UNCHANGED request_frame

\* a call of are_deployments_authorized
call_are_deployments_authorized ==
    /\ ~auth.returned.some
    /\ \E deployments \in IdLists(Deployments) :
           auth' = [auth EXCEPT !.returned =
                       Checked("are_deployments_authorized", deployments,
                               are_deployments_authorized(auth.authorized.deployments,
                                                          deployments))]
    /\ UNCHANGED request_frame

\* a call of is_subgraph_authorized on the authorized subgraphs of the key
call_is_subgraph_authorized ==
    /\ ~auth.returned.some
    /\ \E subgraph \in 1..NumSubgraphs :
           auth' = [auth EXCEPT !.returned =
                       Checked("is_subgraph_authorized", subgraph,
                               is_subgraph_authorized(auth.authorized.subgraphs, subgraph))]
    /\ UNCHANGED request_frame

\* a call of are_subgraphs_authorized
call_are_subgraphs_authorized ==
    /\ ~auth.returned.some
    /\ \E subgraphs \in IdLists(1..NumSubgraphs) :
           auth' = [auth EXCEPT !.returned =
                       Checked("are_subgraphs_authorized", subgraphs,
                               are_subgraphs_authorized(auth.authorized.subgraphs,
                                                        subgraphs))]
    /\ UNCHANGED request_frame

\* a call of is_domain_authorized on the authorized domains of the key
call_is_domain_authorized ==
    /\ ~auth.returned.some
    /\ \E origin \in Domains :
           auth' = [auth EXCEPT !.returned =
                       Checked("is_domain_authorized", origin,
                               is_domain_authorized(auth.authorized.domains, origin))]
    /\ UNCHANGED request_frame

\* the authorization checks of client queries
NextAuth ==
    \/ call_is_deployment_authorized
    \/ call_are_deployments_authorized
    \/ call_is_subgraph_authorized
    \/ call_are_subgraphs_authorized
    \/ call_is_domain_authorized

\* ------------------------------------------------- SQL queries of a client
\* graphql_parser::query::Selection and OperationDefinition
Field(name) == [kind |-> "Field", name |-> name]
FragmentSpread == [kind |-> "FragmentSpread", name |-> ""]
InlineFragment == [kind |-> "InlineFragment", name |-> ""]
OperationDefinition(kind, items) == [kind |-> kind, items |-> items]

\* [&str]::join
RECURSIVE join(_, _)
join(names, separator) ==
    IF names = <<>> THEN ""
    ELSE IF Len(names) = 1 THEN names[1]
    ELSE names[1] \o separator \o join(Tail(names), separator)

\* sql_constraints.rs 10-21: the names of the fields of the selection set of a
\* query that are not "sql", in the order of the selection
items_not_sql(query) ==
    LET fields == SelectSeq(query.items,
                            LAMBDA selection : /\ selection.kind = "Field"
                                               /\ selection.name # "sql")
    IN [k \in DOMAIN fields |-> fields[k].name]

\* sql_constraints.rs 6-34: the first operation that is a Query with a field
\* that is not "sql" gives the error; every other operation is passed over
validate_sql_query(ctx) ==
    LET failing == {k \in DOMAIN ctx.operations :
                       /\ ctx.operations[k].kind = "Query"
                       /\ items_not_sql(ctx.operations[k]) # <<>>}
    IN IF failing = {} THEN Returned("Ok", "", EmptyMap)
       ELSE LET first == CHOOSE k \in failing : \A j \in failing : k <= j
            IN Returned("Err",
                        "Fields [" \o join(items_not_sql(ctx.operations[first]), ", ")
                                   \o "] are not SQL",
                        EmptyMap)

\* validate_sql_query is called on the Context of the client query
call_validate_sql_query ==
    /\ sql.returned.status = "pending"
    /\ sql' = [sql EXCEPT !.returned = validate_sql_query(sql)]
    /\ UNCHANGED <<gateway_vars, topology_vars, auth>>

NextSql == call_validate_sql_query

\* ------------------------------------------------------------ the inputs
\* the answers of the resolvers
HostAnswers == {Fail({})} \cup {Ok(r) : r \in (SUBSET IPs) \ {{}}}
VersionAnswers == {Fail(VersionPlaceholder)} \cup {Ok(v) : v \in Versions}
PartialMaps(D, R) == UNION {[S -> R] : S \in SUBSET D}
PoiAnswers == {Fail(EmptyMap)} \cup {Ok(m) : m \in PartialMaps(Deployments \X Blocks, POIs)}
ProgressOf(d) == [latest_block |-> 10 + d, min_block |-> d]
ProgressAnswers ==
    {Fail(EmptyMap)} \cup {Ok([d \in S |-> ProgressOf(d)]) : S \in SUBSET Deployments}
CostAnswers == {Fail(EmptyMap)} \cup {Ok(m) : m \in PartialMaps(Deployments, Sources)}

\* the configurations
Networks == {{"ip1"}, {"ip2"}}
AddrBlocklists == {None} \cup {Some(S) : S \in SUBSET Addresses}
HostBlocklists == {None} \cup {Some(S) : S \in SUBSET Networks}
PoiBlocklists ==
    {None} \cup {Some(S \X Blocks \X {"poi_bad"}) : S \in SUBSET Deployments}

InternalState(addr, host, min_agent, min_node, pois) ==
    [indexer_addr_blocklist |-> addr,
     indexer_host_blocklist |-> host,
     indexer_min_agent_version |-> min_agent,
     indexer_min_graph_node_version |-> min_node,
     indexer_indexing_pois_blocklist |-> pois]

NetAnswers(host, agent, node, poi, progress, cost) ==
    [host |-> host, agent |-> agent, node |-> node, poi |-> poi,
     progress |-> progress, cost |-> cost]

AllDeployments == [d \in Deployments |-> d]

\* the answers of the registry
AllocatedTokens == {1, 2}
AllocationIds == 1..MaxAllocations
\* up to MaxAllocations allocations of one indexer, each with its own id
AllocationLists ==
    {s \in UNION {[1..n -> AllocationIds \X AllocatedTokens \X Deployments] :
                      n \in 0..MaxAllocations} :
        \A a, b \in DOMAIN s : a # b => s[a][1] # s[b][1]}
Allocations(s) == [k \in DOMAIN s |-> Allocation(s[k][1], s[k][2], s[k][3])]

UrlOptions == {None} \cup {Some(text) : text \in UrlTexts}

\* the non-empty answers of fetch_indexers: the indexers come in ascending
\* order of their ids (network_subgraph.rs 110)
FetchedIndexers(urls, allocation_lists) ==
    UNION {{[k \in 1..n |-> Indexer(k, f[k][1], 1, Allocations(f[k][2]))] :
               f \in [1..n -> urls \X allocation_lists]} : n \in 1..NumIndexers}

\* the answer of fetch_indexers that pre-processes to the given map
FetchedFor(infos) ==
    LET ids == Ascending(DOMAIN infos)
    IN [k \in DOMAIN ids |->
           Indexer(ids[k], Some(UrlHttp), 1,
                   [j \in DOMAIN infos[ids[k]].deployments |->
                       Allocation(infos[ids[k]].deployments[j], 1,
                                  infos[ids[k]].deployments[j])])]

VersionOne ==
    SubgraphVersion(1, 1, Manifest(Some("mainnet"), Some(1)),
                    <<[id |-> 1, indexer |-> [id |-> 1]]>>, FALSE)
VersionTwo == SubgraphVersion(2, 2, None, <<>>, TRUE)
VersionLists == {<<>>, <<VersionOne>>, <<VersionOne, VersionTwo>>}
OneSubgraph == Subgraph(1, None, <<VersionOne>>)

\* the non-empty answers of fetch_subgraphs, in ascending order of the ids
FetchedSubgraphs ==
    UNION {{[k \in 1..n |-> Subgraph(k, None, f[k])] : f \in [1..n -> VersionLists]} :
              n \in 1..NumSubgraphs}

\* no client query is being checked
NoRequest ==
    /\ auth = [authorized |-> [deployments |-> <<>>, subgraphs |-> <<>>, domains |-> <<>>],
               returned |-> None]
    /\ sql = [operations |-> <<>>, returned |-> Pending]

\* network_subgraph.rs 76-101, network.rs 86-118: Client::create and
\* GraphNetwork::new were called, the registry answering with one of `answers`
InitTopologyWith(answers) ==
    /\ registry \in answers
    /\ timer = TRUE
    /\ polls = 0
    /\ polling = {}
    /\ outcomes = <<>>
    /\ network_subgraphs = Eventual(0, <<>>)
    /\ mapping = Eventual(0, <<>>)
    /\ graph_network = [subgraphs |-> Eventual(0, <<>>),
                        deployments |-> Eventual(0, <<>>),
                        indexers |-> Eventual(0, <<>>)]
    /\ new = "awaiting"
    /\ ip_blocker = EmptyMap

\* the state when the two fetch functions are called, the registry answering
\* with one of indexer_answers and one of subgraph_answers
InitFetchWith(indexer_answers, subgraph_answers) ==
    /\ client \in [indexers : indexer_answers, subgraphs : subgraph_answers]
    /\ indexers_info = Pending
    /\ subgraphs_info = Pending
    /\ debug = [indexers |-> <<>>, subgraphs |-> <<>>]
    /\ state = InternalState(None, None, VersionPlaceholder, VersionPlaceholder, None)
    /\ indexers = EmptyMap
    /\ net = EmptyMap
    /\ indexer = EmptyMap
    /\ pc = EmptyMap
    /\ local = EmptyMap
    /\ indexer_host_resolver = 0
    /\ pois_resolver = 0
    /\ compiler = 0
    /\ log = EmptyMap
    /\ result = Pending
    /\ subgraph_client = "free"
    /\ side = [indexers |-> "lock", subgraphs |-> "lock"]
    /\ update = Pending
    /\ InitTopologyWith({Fail(<<>>)})
    /\ NoRequest

\* the state when process_indexers_info is called with one of `inputs`, under
\* one of `states`, every indexer answering as one of `answers`
InitWith(states, inputs, answers) ==
    /\ state \in states
    /\ indexers \in inputs
    /\ net \in [DOMAIN indexers -> answers]
    /\ indexer = indexers
    /\ pc = [i \in DOMAIN indexers |-> "addr"]
    /\ local = [i \in DOMAIN indexers |->
                  [agent_version |-> VersionPlaceholder,
                   indexer_affected_pois |-> {},
                   indexings_cost_models |-> EmptyMap]]
    /\ indexer_host_resolver = 0
    /\ pois_resolver = 0
    /\ compiler = 0
    /\ log = [i \in DOMAIN indexers |-> <<>>]
    /\ result = [status |-> "pending", error |-> "", v |-> EmptyMap]
    /\ client = [indexers |-> Ok(FetchedFor(indexers)), subgraphs |-> Ok(<<OneSubgraph>>)]
    /\ indexers_info = Returned("Ok", "", indexers)
    /\ subgraphs_info = Pending
    /\ debug = [indexers |-> <<>>, subgraphs |-> <<>>]
    /\ subgraph_client = "free"
    /\ side = [indexers |-> "process", subgraphs |-> "lock"]
    /\ update = Pending
    /\ InitTopologyWith({Fail(<<>>)})
    /\ NoRequest

\* the input maps: every key is the id of its record (internal.rs 232)
InputMaps(keys, lists) ==
    UNION {{[i \in K |-> IndexerInfo(i, f[i])] : f \in [K -> lists]} : K \in keys}

\* an indexer that passes every step
PassAll ==
    NetAnswers(Ok({"ip1"}), Ok(<<0, 1, 0>>), Ok(<<1, 0, 0>>),
               Ok([k \in Deployments \X Blocks |-> "poi_good"]),
               Ok([d \in Deployments |-> ProgressOf(d)]),
               Ok([d \in Deployments |-> "src_good"]))

\* indexers leaving the pipeline in the different ways
HostFails == [PassAll EXCEPT !.host = Fail({})]
AgentBelow == [PassAll EXCEPT !.agent = Ok(<<0, 0, 1>>)]
NodeFailsPoiPartial ==
    [PassAll EXCEPT !.node = Fail(VersionPlaceholder),
                    !.poi = Ok([k \in Deployments \X Blocks |->
                                  IF k[1] = 1 THEN "poi_bad" ELSE "poi_good"]),
                    !.cost = Fail(EmptyMap)]
PoiFails == [PassAll EXCEPT !.host = Ok({"ip1", "ip2"}), !.poi = Fail(EmptyMap)]
ProgressFails ==
    [PassAll EXCEPT !.progress = Fail(EmptyMap),
                    !.poi = Ok([k \in Deployments \X Blocks |-> "poi_bad"])]

\* the indexers of the concurrent runs
Scenarios == {PassAll, HostFails, AgentBelow, NodeFailsPoiPartial, PoiFails, ProgressFails}

\* the configurations of the concurrent runs: nothing configured (the default of
\* the tests), everything configured, and an address blocklist with a partial
\* POI blocklist
StateDefault == InternalState(None, None, <<0, 0, 1>>, <<0, 0, 1>>, None)
StateStrict ==
    InternalState(Some({}), Some({{"ip2"}}), <<0, 1, 0>>, <<0, 1, 0>>,
                  Some(Deployments \X Blocks \X {"poi_bad"}))
StateMixed ==
    InternalState(Some({1}), Some({}), <<0, 0, 1>>, <<1, 0, 0>>,
                  Some({1} \X Blocks \X {"poi_bad"}))
States == {StateDefault, StateStrict, StateMixed}

Init == InitWith(States, InputMaps(SUBSET Addresses, {AllDeployments}), Scenarios)

Spec == Init /\ [][Next]_vars

\* Concurrent runs under every address blocklist
InitAddr ==
    InitWith({[StateStrict EXCEPT !.indexer_addr_blocklist = a] : a \in AddrBlocklists},
             InputMaps(SUBSET Addresses, {AllDeployments}),
             {PassAll, AgentBelow, NodeFailsPoiPartial})

SpecAddr == InitAddr /\ [][Next]_vars

\* Concurrent runs under every host blocklist and every answer of the host resolver
InitHost ==
    InitWith({[StateStrict EXCEPT !.indexer_host_blocklist = h] : h \in HostBlocklists},
             InputMaps(SUBSET Addresses, {AllDeployments}),
             {[PassAll EXCEPT !.host = h] : h \in HostAnswers})

SpecHost == InitHost /\ [][Next]_vars

\* One indexer, under every pair of minimum versions and every pair of answers
\* of the version resolver
MinVersions == Versions \cup {VersionPlaceholder}

InitVersion ==
    InitWith({[s EXCEPT !.indexer_min_agent_version = a,
                        !.indexer_min_graph_node_version = n] :
                  s \in {StateDefault, StateStrict}, a \in MinVersions, n \in MinVersions},
             InputMaps({{a} : a \in Addresses}, {AllDeployments}),
             {[s EXCEPT !.agent = a, !.node = n] :
                  s \in {PassAll, NodeFailsPoiPartial},
                  a \in VersionAnswers, n \in VersionAnswers})

SpecVersion == InitVersion /\ [][Next]_vars

\* One indexer with any list of deployments, under every POI blocklist and every
\* answer of the POI resolver
InitPoi ==
    InitWith({[s EXCEPT !.indexer_indexing_pois_blocklist = b] :
                  s \in {StateDefault, StateStrict}, b \in PoiBlocklists},
             InputMaps({{a} : a \in Addresses}, DeploymentLists),
             {[s EXCEPT !.poi = p] : s \in {PassAll, NodeFailsPoiPartial}, p \in PoiAnswers})

SpecPoi == InitPoi /\ [][Next]_vars

\* One indexer with any list of deployments, under every answer of the progress
\* resolver
InitProgress ==
    InitWith(States,
             InputMaps({{a} : a \in Addresses}, DeploymentLists),
             {[s EXCEPT !.progress = p] :
                  s \in {PassAll, NodeFailsPoiPartial}, p \in ProgressAnswers})

SpecProgress == InitProgress /\ [][Next]_vars

\* One indexer with any list of deployments, under every answer of the cost
\* model resolver
InitCost ==
    InitWith(States,
             InputMaps({{a} : a \in Addresses}, DeploymentLists),
             {[s EXCEPT !.cost = c] :
                  s \in {PassAll, NodeFailsPoiPartial}, c \in CostAnswers})

SpecCost == InitCost /\ [][Next]_vars

\* The registry answers with indexers of any URL, with and without an allocation
InitUrl ==
    InitFetchWith({Ok(l) : l \in FetchedIndexers(UrlOptions, {<<>>, <<<<1, 1, 1>>>>})},
                  {Ok(<<OneSubgraph>>)})

SpecUrl == InitUrl /\ [][NextFetch]_vars

\* The registry answers with one indexer with any list of allocations
InitAllocations ==
    InitFetchWith({Ok(<<Indexer(i, Some(UrlHttp), 1, Allocations(a))>>) :
                      i \in Addresses, a \in AllocationLists},
                  {Ok(<<OneSubgraph>>)})

SpecAllocations == InitAllocations /\ [][NextFetch]_vars

\* The registry fails, answers nothing, or answers with valid and invalid records
InitFetch ==
    InitFetchWith({Fail(<<>>), Ok(<<>>)} \cup
                      {Ok(l) : l \in FetchedIndexers({None, Some(UrlHttp)},
                                                     {<<>>, <<<<1, 1, 1>>>>})},
                  {Fail(<<>>), Ok(<<>>)} \cup {Ok(l) : l \in FetchedSubgraphs})

SpecFetch == InitFetch /\ [][NextFetch]_vars

\* fetch_update is called: the registry fails, answers nothing, or answers with
\* valid and invalid records, and an indexer passes every step or is dropped
InitUpdate ==
    /\ client \in [indexers : {Fail(<<>>), Ok(<<>>)} \cup
                                {Ok(l) : l \in FetchedIndexers({None, Some(UrlHttp)},
                                                               {<<<<1, 1, 1>>, <<2, 1, 2>>>>})},
                    subgraphs : {Fail(<<>>), Ok(<<>>), Ok(<<OneSubgraph>>),
                                 Ok(<<Subgraph(1, None, <<>>)>>)}]
    /\ indexers_info = Pending
    /\ subgraphs_info = Pending
    /\ debug = [indexers |-> <<>>, subgraphs |-> <<>>]
    /\ state = StateStrict
    /\ net \in [Addresses -> {PassAll, AgentBelow}]
    /\ indexers = EmptyMap
    /\ indexer = EmptyMap
    /\ pc = EmptyMap
    /\ local = EmptyMap
    /\ log = EmptyMap
    /\ indexer_host_resolver = 0
    /\ pois_resolver = 0
    /\ compiler = 0
    /\ result = Returned("idle", "", EmptyMap)    \* process_indexers_info is not called yet
    /\ subgraph_client = "free"
    /\ side = [indexers |-> "lock", subgraphs |-> "lock"]
    /\ update = Pending
    /\ InitTopologyWith({Fail(<<>>)})
    /\ NoRequest

SpecUpdate == InitUpdate /\ [][NextUpdate]_vars

\* the network service is not running
NoUpdate ==
    /\ client = [indexers |-> Fail(<<>>), subgraphs |-> Fail(<<>>)]
    /\ indexers_info = Pending
    /\ subgraphs_info = Pending
    /\ debug = [indexers |-> <<>>, subgraphs |-> <<>>]
    /\ state = InternalState(None, None, VersionPlaceholder, VersionPlaceholder, None)
    /\ indexers = EmptyMap
    /\ net = EmptyMap
    /\ indexer = EmptyMap
    /\ pc = EmptyMap
    /\ local = EmptyMap
    /\ indexer_host_resolver = 0
    /\ pois_resolver = 0
    /\ compiler = 0
    /\ log = EmptyMap
    /\ result = Pending
    /\ subgraph_client = "free"
    /\ side = [indexers |-> "lock", subgraphs |-> "lock"]
    /\ update = Pending

\* what the registry can hold for a subgraph deployment: with and without a
\* manifest and its network, with no allocation, with allocations of indexers
\* with and without a URL that parses, transferred to L2 or not
SubgraphDeployments ==
    LET full == Manifest(Some("mainnet"), Some(1))
        valid == <<NetworkAllocation(1, 1, Some(UrlHttp), 1),
                   NetworkAllocation(2, 1, Some(UrlHttp), 2)>>
        data(manifest, allocations, transferred_to_l2) ==
            [manifest |-> manifest, allocations |-> allocations,
             transferred_to_l2 |-> transferred_to_l2]
    IN {data(full, <<>>, TRUE),
        data(full, valid, TRUE),
        data(Manifest(Some("mainnet"), None), <<>>, FALSE),
        data(full, <<NetworkAllocation(1, 1, None, 1)>>, TRUE),
        data(None, valid, FALSE),
        data(Manifest(None, Some(1)), <<>>, TRUE),
        data(full, <<NetworkAllocation(1, 1, Some(<<"a">>), 1),
                     NetworkAllocation(2, 2, Some(UrlHttp), 1)>>, FALSE)}

\* the lists of subgraphs the registry can answer with, in ascending order of
\* the ids: a deployment has the same data in every version that refers to it
NetworkSubgraphs ==
    LET ids == {1, 2}
        lists == {<<>>, <<1>>, <<2, 1>>, <<1, 1>>}
        versions(data, list) ==
            [j \in DOMAIN list |->
                SubgraphVersion(j, list[j], data[list[j]].manifest,
                                data[list[j]].allocations, data[list[j]].transferred_to_l2)]
    IN UNION {{[k \in 1..n |-> Subgraph(k, None, versions(data, f[k]))] :
                  f \in [1..n -> lists], data \in [ids -> SubgraphDeployments]} :
                 n \in 1..NumSubgraphs}

\* The first poll has written one of the lists, which the map tasks convert
InitTopology ==
    /\ NoUpdate
    /\ registry \in {Ok(l) : l \in NetworkSubgraphs}
    /\ timer = FALSE
    /\ polls = 1
    /\ polling = {}
    /\ outcomes = <<"Ok">>
    /\ network_subgraphs = Eventual(1, registry.v)
    /\ mapping = Eventual(0, <<>>)
    /\ graph_network = [subgraphs |-> Eventual(0, <<>>),
                        deployments |-> Eventual(0, <<>>),
                        indexers |-> Eventual(0, <<>>)]
    /\ new = "awaiting"
    /\ ip_blocker = EmptyMap
    /\ NoRequest

SpecTopology == InitTopology /\ [][NextTopology]_vars

\* The poll loop under a registry that fails, answers nothing, or lists subgraphs
InitPoll == NoUpdate /\ InitTopologyWith(RegistryAnswers) /\ NoRequest

SpecPoll == InitPoll /\ [][NextPoll]_vars

\* The poll loop under a fair scheduler: the timer task and the pipe_async task
\* are spawned tasks of the runtime and `.forever()` keeps them, so that a tick
\* is written and taken when it can be; the paginated query of a poll returns
SpecPollFair ==
    /\ SpecPoll
    /\ WF_vars(timer_tick)
    /\ WF_vars(poll_start)
    /\ WF_vars(\E n \in polling : poll_subgraphs(n))

\* the authorized lists of an API key: one of the three lists is set, the lists
\* of domains being the lists of at most one pattern and some lists of two
AuthorizedDomains ==
    {<<>>} \cup {<<pattern>> : pattern \in Domains} \cup
    {<<pattern, <<"*", ".", "a">>>> : pattern \in {<<"a">>, <<"*", "a">>, <<".">>}}

Authorized ==
    {[deployments |-> l, subgraphs |-> <<>>, domains |-> <<>>] : l \in IdLists(Deployments)}
    \cup
    {[deployments |-> <<>>, subgraphs |-> l, domains |-> <<>>] : l \in IdLists(1..NumSubgraphs)}
    \cup
    {[deployments |-> <<>>, subgraphs |-> <<>>, domains |-> l] : l \in AuthorizedDomains}

\* The checks of client queries against the authorized lists of an API key
InitAuth ==
    /\ NoUpdate
    /\ InitTopologyWith({Fail(<<>>)})
    /\ auth \in {[authorized |-> a, returned |-> None] : a \in Authorized}
    /\ sql = [operations |-> <<>>, returned |-> Pending]

SpecAuth == InitAuth /\ [][NextAuth]_vars

\* the selection sets of the operations of a client query
SelectionSets ==
    {<<>>,
     <<Field("sql")>>,
     <<Field("users")>>,
     <<Field("sql"), Field("sql")>>,
     <<Field("sql"), Field("users")>>,
     <<Field("tokens"), Field("users")>>,
     <<Field("users"), Field("tokens")>>,
     <<FragmentSpread>>,
     <<InlineFragment, Field("sql")>>}

\* the documents cost_model::Context::new parsed: operations written with the
\* keyword query, mutation or subscription, or as a bare selection set
Contexts ==
    LET operations == {OperationDefinition(kind, items) :
                          kind \in {"SelectionSet", "Query", "Mutation", "Subscription"},
                          items \in SelectionSets}
    IN UNION {[1..n -> operations] : n \in 0..MaxOperations}

\* validate_sql_query is about to be called on the document of a client query
InitSql ==
    /\ NoUpdate
    /\ InitTopologyWith({Fail(<<>>)})
    /\ auth = [authorized |-> [deployments |-> <<>>, subgraphs |-> <<>>, domains |-> <<>>],
               returned |-> None]
    /\ sql \in {[operations |-> operations, returned |-> Pending] : operations \in Contexts}

SpecSql == InitSql /\ [][NextSql]_vars

\* A refresh in which the POI step can remove a deployment of an indexer: the
\* registry lists indexers with allocations on one or two deployments, and the
\* POI probes of the indexers answer a forbidden POI for deployment 1 or for none
InitRefresh ==
    /\ client \in [indexers : {Ok(l) : l \in FetchedIndexers({Some(UrlHttp)},
                                                 {<<<<1, 2, 2>>, <<2, 1, 2>>, <<3, 1, 1>>>>,
                                                  <<<<1, 1, 1>>>>})},
                    subgraphs : {Ok(<<OneSubgraph>>)}]
    /\ indexers_info = Pending
    /\ subgraphs_info = Pending
    /\ debug = [indexers |-> <<>>, subgraphs |-> <<>>]
    /\ state = StateStrict
    /\ net \in {[a \in Addresses |-> answers] : answers \in {PassAll, NodeFailsPoiPartial}}
    /\ indexers = EmptyMap
    /\ indexer = EmptyMap
    /\ pc = EmptyMap
    /\ local = EmptyMap
    /\ log = EmptyMap
    /\ indexer_host_resolver = 0
    /\ pois_resolver = 0
    /\ compiler = 0
    /\ result = Returned("idle", "", EmptyMap)
    /\ subgraph_client = "free"
    /\ side = [indexers |-> "lock", subgraphs |-> "lock"]
    /\ update = Pending
    /\ InitTopologyWith({Fail(<<>>)})
    /\ NoRequest

SpecRefresh == InitRefresh /\ [][NextUpdate]_vars

\* fetch_update under a runtime that polls its future whenever an operation it
\* awaits is ready: every registry fetch answers or its timeout elapses, every
\* resolver answers, and a free mutex is handed to a task that waits for it; the
\* indexers of one update have a URL and run the same software
InitUpdateFair ==
    /\ InitUpdate
    /\ client.subgraphs \in {Fail(<<>>), Ok(<<OneSubgraph>>)}
    /\ \A k \in DOMAIN client.indexers.v : client.indexers.v[k].url.some
    /\ \A a, b \in Addresses : net[a] = net[b]

SpecUpdateFair == InitUpdateFair /\ [][NextUpdate]_vars /\ WF_vars(NextUpdate)

\* ============================================================== the claims
Ops(i) == [j \in DOMAIN log[i] |-> log[i][j].op]
Called(i, op) == \E j \in DOMAIN log[i] : log[i][j].op = op
\* the call `op` of task i was followed by `return None`
DroppedAfter(i, op) ==
    \E j \in DOMAIN log[i] :
        /\ log[i][j].op = op
        /\ j + 1 \in DOMAIN log[i]
        /\ log[i][j + 1].op = "return_none"
\* the call `op` of task i was made and the task went on
PassedAfter(i, op) == Called(i, op) /\ ~DroppedAfter(i, op)

CanonicalOrder ==
    <<"check_addr", "lock_host_resolver", "resolve_url", "resolve_agent_version",
      "resolve_graph_node_version", "check_poi", "lock_pois_resolver", "resolve_poi",
      "resolve_progress", "resolve_cost_models", "lock_compiler", "compile">>
Rank(op) == CHOOSE k \in DOMAIN CanonicalOrder : CanonicalOrder[k] = op
\* the pipeline step (1 address .. 6 cost model) a call belongs to
StepOf(op) ==
    CASE op = "check_addr" -> 1
      [] op \in {"lock_host_resolver", "resolve_url"} -> 2
      [] op \in {"resolve_agent_version", "resolve_graph_node_version"} -> 3
      [] op \in {"check_poi", "lock_pois_resolver", "resolve_poi"} -> 4
      [] op = "resolve_progress" -> 5
      [] op \in {"resolve_cost_models", "lock_compiler", "compile"} -> 6

\* C1: the calls of every task follow the fixed order address, host, versions,
\* POI, progress, cost model, without skipping a step, and `return None` is the
\* last thing a task does: after a drop no step and no probe is executed.
C1_FixedOrderEarlyReturn ==
    \A i \in Tasks :
        LET l == log[i] IN
        /\ l # <<>> => l[1].op = "check_addr"
        /\ \A j \in 1..(Len(l) - 1) :
              /\ l[j].op # "return_none"
              /\ l[j + 1].op # "return_none" =>
                    /\ Rank(l[j].op) < Rank(l[j + 1].op)
                    /\ StepOf(l[j + 1].op) <= StepOf(l[j].op) + 1
        /\ pc[i] = "dropped" <=> (l # <<>> /\ l[Len(l)].op = "return_none")
        /\ pc[i] = "done" => StepOf(l[Len(l)].op) = 6

C1_Witness ==
    \E i, j \in Tasks :
        /\ pc[i] = "dropped" /\ Ops(i)[Len(log[i]) - 1] = "resolve_agent_version"
        /\ pc[j] = "done" /\ Len(log[j]) = Len(CanonicalOrder)
        /\ result.status = "Ok"

\* C2: process_indexers_info returns only when every task has finished; it
\* returns Ok(map) with exactly the tasks that did not return None, each under
\* its own address with its processed record, and the error "no valid indexers
\* found" exactly when there is no such task.
C2_ResultIsSurvivors ==
    result.status # "pending" =>
        LET survivors == {i \in Tasks : ~Called(i, "return_none")} IN
        /\ \A i \in Tasks : pc[i] \in {"done", "dropped"}
        /\ survivors = {} <=> result.status = "Err"
        /\ result.status = "Err" => result.error = "no valid indexers found"
        /\ result.status = "Ok" =>
              /\ DOMAIN result.v = survivors
              /\ \A i \in survivors : result.v[i] = indexer[i] /\ result.v[i].id = i

C2_Witness ==
    /\ result.status = "Err"
    /\ Tasks = Addresses
    /\ \E i, j \in Tasks : DroppedAfter(i, "resolve_url") /\ DroppedAfter(j, "resolve_poi")

\* C3: an indexer whose address is in the configured address blocklist is
\* dropped by the address step before any probe and is never in the result;
\* without an address blocklist the address step drops no indexer.
C3_AddrBlocklist ==
    LET blocklist == state.indexer_addr_blocklist IN
    \A i \in Tasks :
        /\ (blocklist.some /\ i \in blocklist.v) =>
              /\ log[i] # <<>> => Ops(i) = <<"check_addr", "return_none">>
              /\ i \notin DOMAIN result.v
        /\ ~blocklist.some => ~DroppedAfter(i, "check_addr")

C3_Witness ==
    /\ state.indexer_addr_blocklist.some
    /\ result.status = "Ok"
    /\ \E i, j \in Tasks :
          /\ i \in state.indexer_addr_blocklist.v /\ net[i] = PassAll
          /\ j \in DOMAIN result.v

\* C4: once the host resolver has answered, the indexer is dropped at the host
\* step exactly when the resolution failed (whether or not a host blocklist is
\* configured) or the configured blocklist reports the resolved addresses as
\* blocked; otherwise it goes on to the version probes.
C4_HostStep ==
    LET blocklist == state.indexer_host_blocklist IN
    \A i \in Tasks :
        Called(i, "resolve_url") =>
            /\ DroppedAfter(i, "resolve_url") <=>
                  \/ ~net[i].host.ok
                  \/ blocklist.some /\ HostBlocklist_check(blocklist.v, net[i].host.v)
            /\ ~DroppedAfter(i, "resolve_url") => pc[i] # "dropped"

C4_Witness ==
    \E i, j \in Tasks :
        /\ ~state.indexer_host_blocklist.some
        /\ ~net[i].host.ok /\ DroppedAfter(i, "resolve_url")
        /\ net[j].host.ok /\ pc[j] = "done"

\* C5: once the agent-version probe has failed or answered a version strictly
\* below min_agent_version, the indexer is dropped, the graph-node version probe
\* is not issued, and both version fields keep the values of the input record.
C5_AgentVersionBlocks ==
    \A i \in Tasks :
        (/\ Called(i, "resolve_agent_version")
         /\ \/ ~net[i].agent.ok
            \/ VersionLt(net[i].agent.v, state.indexer_min_agent_version)) =>
            /\ pc[i] = "dropped"
            /\ DroppedAfter(i, "resolve_agent_version")
            /\ ~Called(i, "resolve_graph_node_version")
            /\ indexer[i].indexer_agent_version = indexers[i].indexer_agent_version
            /\ indexer[i].graph_node_version = indexers[i].graph_node_version

C5_Witness ==
    \E i \in Tasks :
        /\ net[i].agent.ok /\ net[i].node.ok
        /\ VersionLt(net[i].agent.v, state.indexer_min_agent_version)
        /\ VersionGe(net[i].node.v, state.indexer_min_graph_node_version)
        /\ DroppedAfter(i, "resolve_agent_version")

C7_NodeProbeFailureBlocks ==
    \A i \in Tasks :
        (Called(i, "resolve_graph_node_version") /\ ~net[i].node.ok) =>
            /\ DroppedAfter(i, "resolve_graph_node_version")
            /\ i \notin DOMAIN result.v

\* C8: every indexer of the result has indexer_agent_version >=
\* indexer_min_agent_version and graph_node_version >=
\* indexer_min_graph_node_version.
C8_ResultVersionsAboveMinima ==
    \A i \in DOMAIN result.v :
        /\ VersionGe(result.v[i].indexer_agent_version, state.indexer_min_agent_version)
        /\ VersionGe(result.v[i].graph_node_version, state.indexer_min_graph_node_version)

C8_Witness ==
    \E i \in DOMAIN result.v :
        /\ state.indexer_min_agent_version = <<0, 1, 0>>
        /\ state.indexer_min_graph_node_version = <<0, 1, 0>>
        /\ result.v[i].indexer_agent_version = <<0, 1, 0>>
        /\ result.v[i].graph_node_version = <<1, 0, 0>>

\* C9: when no POI blocklist is configured, or the blocklist names none of the
\* indexer's deployments, the POI step lets the indexer pass with its
\* deployments unchanged, without taking the POI resolver mutex and without a
\* POI probe.
C9_PoiStepWithoutProbe ==
    LET blocklist == state.indexer_indexing_pois_blocklist IN
    \A i \in Tasks :
        (/\ Called(i, "check_poi")
         /\ \/ ~blocklist.some
            \/ \A d \in Range(indexers[i].deployments) :
                  ~\E e \in blocklist.v : e[1] = d) =>
            /\ ~DroppedAfter(i, "check_poi")
            /\ ~Called(i, "lock_pois_resolver")
            /\ ~Called(i, "resolve_poi")
            /\ pois_resolver # i
            /\ indexer[i].deployments = indexers[i].deployments

C9_Witness ==
    \E i \in Tasks :
        /\ state.indexer_indexing_pois_blocklist.some
        /\ state.indexer_indexing_pois_blocklist.v # {}
        /\ Called(i, "check_poi")
        /\ ~Called(i, "resolve_poi")
        /\ pc[i] = "done"

\* the position of d in the duplicate-free list s
Position(s, d) == CHOOSE j \in DOMAIN s : s[j] = d

\* C10: for an indexer that passed the POI step after a probe, the deployments
\* afterwards are the deployments before the step without those the blocklist
\* check marked blocked, in the same relative order; a deployment without an
\* entry in the check result (not affected, or missing from the answer) is kept.
C10_PoiRetain ==
    \A i \in Tasks :
        PassedAfter(i, "resolve_poi") =>
            LET blocklist == state.indexer_indexing_pois_blocklist.v
                before == indexers[i].deployments
                after == indexer[i].deployments
                affected == PoiBlocklist_affected_pois_metadata(blocklist, before)
                check_result == PoiBlocklist_check(blocklist, Restrict(net[i].poi.v, affected))
                blocked == {d \in DOMAIN check_result : check_result[d] = "blocked"}
            IN /\ Range(after) = Range(before) \ blocked
               /\ Len(after) = Cardinality(Range(after))
               /\ \A a, b \in DOMAIN after :
                     a < b => Position(before, after[a]) < Position(before, after[b])
               /\ \A d \in Range(before) : d \notin DOMAIN check_result => d \in Range(after)

C10_Witness ==
    \E i \in Tasks :
        /\ PassedAfter(i, "resolve_poi")
        /\ pc[i] = "done"
        /\ Len(indexers[i].deployments) = NumDeployments
        /\ indexers[i].deployments[1] > indexers[i].deployments[2]
        /\ Len(indexer[i].deployments) = NumDeployments - 1
        /\ \E d \in Range(indexer[i].deployments) :
              /\ \E e \in state.indexer_indexing_pois_blocklist.v : e[1] = d
              /\ \A k \in DOMAIN net[i].poi.v : k[1] # d

\* the POI step of task i has been left, by a drop or towards the progress step
PoiStepLeft(i) ==
    /\ Called(i, "check_poi")
    /\ pc[i] \notin {"poi", "poi_lock", "poi_resolve"}
DroppedByPoiStep(i) == DroppedAfter(i, "check_poi") \/ DroppedAfter(i, "resolve_poi")

\* C11: the POI step drops an indexer exactly when a POI probe was required
\* (it was issued for the affected deployments) and failed, or when the probe
\* answered and every one of its deployments was marked blocked by the POI
\* check; in all other cases the indexer leaves the step towards the progress
\* step with a non-empty deployments list.
C11_PoiDropConditions ==
    \A i \in Tasks :
        PoiStepLeft(i) =>
            LET blocklist == state.indexer_indexing_pois_blocklist
                before == indexers[i].deployments
                affected == local[i].indexer_affected_pois
                required == Called(i, "resolve_poi")
                check_result == PoiBlocklist_check(blocklist.v, Restrict(net[i].poi.v, affected))
                all_blocked ==
                    \A d \in Range(before) :
                        d \in DOMAIN check_result /\ check_result[d] = "blocked"
            IN /\ DroppedByPoiStep(i) <=>
                     /\ required
                     /\ ~net[i].poi.ok \/ all_blocked
               /\ ~DroppedByPoiStep(i) =>
                     /\ indexer[i].deployments # <<>>
                     /\ pc[i] # "dropped" \/ DroppedAfter(i, "resolve_progress")

C11_Witness ==
    \E i \in Tasks :
        /\ net[i].poi.ok
        /\ Len(indexers[i].deployments) = NumDeployments
        /\ DroppedAfter(i, "resolve_poi")

\* C12: once the progress resolver has answered, the indexer is dropped exactly
\* when the probe failed; when it succeeded the indexer goes on to the cost
\* model step and indexings_progress holds exactly one entry, with the answered
\* latest_block and min_block, for every deployment of the answer: a deployment
\* missing from the answer has no entry and causes no drop.
C12_ProgressStep ==
    \A i \in Tasks :
        Called(i, "resolve_progress") =>
            LET answer == net[i].progress IN
            /\ DroppedAfter(i, "resolve_progress") <=> ~answer.ok
            /\ answer.ok =>
                  /\ pc[i] # "dropped"
                  /\ DOMAIN indexer[i].indexings_progress = DOMAIN answer.v
                  /\ \A d \in DOMAIN answer.v :
                        /\ indexer[i].indexings_progress[d].latest_block = answer.v[d].latest_block
                        /\ indexer[i].indexings_progress[d].min_block = answer.v[d].min_block
                  /\ \A d \in Range(indexer[i].deployments) \ DOMAIN answer.v :
                        d \notin DOMAIN indexer[i].indexings_progress

C12_Witness ==
    \E i \in DOMAIN result.v :
        /\ result.v[i].indexings_progress # EmptyMap
        /\ \E d \in Range(result.v[i].deployments) :
              d \notin DOMAIN result.v[i].indexings_progress

\* the cost model step of task i
InCostModelStep(i) == pc[i] \in {"cost_model", "compile_lock", "compile"}
CostModelStepFinds(i) == ~net[i].cost.ok \/ net[i].cost.v = EmptyMap

\* C13: the cost model step never drops an indexer: a step of a task within it
\* leads to the next point of the step or to the end of the task, never to a
\* drop; when the resolver fails or answers an empty map the task ends at once
\* with the record unchanged and indexings_cost_model empty; and every indexer
\* that passed the progress step is in the result.
C13_CostModelNeverDrops ==
    /\ [][\A i \in Tasks :
             (InCostModelStep(i) /\ pc'[i] # pc[i]) =>
                 /\ pc'[i] # "dropped"
                 /\ (pc[i] = "cost_model" /\ CostModelStepFinds(i)) =>
                       /\ pc'[i] = "done"
                       /\ indexer'[i] = indexer[i]
                       /\ indexer'[i].indexings_cost_model = EmptyMap
                 /\ \A f \in DOMAIN indexer[i] \ {"indexings_cost_model"} :
                       indexer'[i][f] = indexer[i][f]]_vars
    /\ [](\A i \in Tasks :
             PassedAfter(i, "resolve_progress") =>
                 /\ pc[i] # "dropped"
                 /\ result.status # "pending" =>
                       result.status = "Ok" /\ i \in DOMAIN result.v)

C13_Witness ==
    \E i \in DOMAIN result.v :
        /\ ~net[i].cost.ok
        /\ result.v[i].indexings_cost_model = EmptyMap
        /\ result.v[i].indexings_progress # EmptyMap
        /\ Len(result.v[i].deployments) < Len(indexers[i].deployments)

\* C14: when the cost model resolver answers a non-empty map, indexings_cost_model
\* afterwards holds exactly the deployments of the answer whose source compiled,
\* each with its compiled model; a source that fails to compile removes only its
\* own entry, and the indexer is not dropped.
C14_CompiledCostModels ==
    \A i \in Tasks :
        (Called(i, "resolve_cost_models") /\ net[i].cost.ok /\ net[i].cost.v # EmptyMap) =>
            LET sources == net[i].cost.v
                compiled == {d \in DOMAIN sources : Compile(sources[d]).ok}
            IN /\ pc[i] \in {"compile_lock", "compile", "done"}
               /\ pc[i] = "done" =>
                     /\ Called(i, "compile")
                     /\ DOMAIN indexer[i].indexings_cost_model = compiled
                     /\ \A d \in compiled :
                           indexer[i].indexings_cost_model[d] = Compile(sources[d]).v
               /\ result.status # "pending" => i \in DOMAIN result.v

C14_Witness ==
    \E i \in DOMAIN result.v :
        \E d, e \in DOMAIN net[i].cost.v :
            /\ ~Compile(net[i].cost.v[d]).ok
            /\ e \in DOMAIN result.v[i].indexings_cost_model
            /\ d \notin DOMAIN result.v[i].indexings_cost_model

\* the records fetch_indexers answered with, once the function has returned
FetchedIndexersSeen ==
    IF indexers_info.status # "pending" /\ client.indexers.ok
    THEN Range(client.indexers.v) ELSE {}
\* the "filtering-out" message of the fetched indexer with this id, if any
FilteredOut(id) == {msg \in Range(debug.indexers) : msg.id = id}

Http == <<"h", "t", "t", "p">>
Https == <<"h", "t", "t", "p", "s">>

\* C15 (as stated): every IndexerInfo that pre-processing produces has a URL
\* whose scheme is exactly http or https and whose host is present, and a
\* fetched indexer whose URL parses with any other scheme is dropped.
C15_SchemeHttpOrHttps ==
    /\ \A id \in DOMAIN indexers_info.v :
          /\ indexers_info.v[id].url.scheme \in {Http, Https}
          /\ indexers_info.v[id].url.host.some
    /\ \A fetched \in FetchedIndexersSeen :
          (/\ fetched.url.some
           /\ parse_url(fetched.url.v).ok
           /\ parse_url(fetched.url.v).v.scheme \notin {Http, Https}) =>
              /\ fetched.id \notin DOMAIN indexers_info.v
              /\ FilteredOut(fetched.id) # {}

\* the checks of the pre-processing of one fetched indexer, in the order URL
\* present, URL parses, scheme, host, allocations, deployments: whether each
\* fails, and the message it reports
CheckFails(fetched) ==
    LET parsed == parse_url(fetched.url.v)
    IN <<~fetched.url.some,
         fetched.url.some /\ ~parsed.ok,
         fetched.url.some /\ parsed.ok /\ ~StartsWith(parsed.v.scheme, Http),
         fetched.url.some /\ parsed.ok /\ ~parsed.v.host.some,
         fetched.allocations = <<>>,
         \A k \in DOMAIN fetched.allocations : FALSE>>
CheckMessages ==
    <<"missing URL", "URL parsing failed", "invalid URL: invalid scheme",
      "invalid URL: missing host", "no allocations", "no deployments">>
FailingChecks(fetched) == {k \in DOMAIN CheckMessages : CheckFails(fetched)[k]}
FirstFailingCheck(fetched) ==
    CHOOSE k \in FailingChecks(fetched) : \A j \in FailingChecks(fetched) : k <= j

\* C16: a fetched indexer that fails one of the checks URL present, URL parses,
\* scheme, host, allocations, deployments is dropped with the message of the
\* first check it fails, without failing the fetch: the indexers that pass all
\* checks are returned, and every IndexerInfo returned has at least one
\* deployment.
C16_DroppedWithFirstReason ==
    /\ \A fetched \in FetchedIndexersSeen :
          IF FailingChecks(fetched) = {}
          THEN /\ FilteredOut(fetched.id) = {}
               /\ indexers_info.status = "Ok"
               /\ fetched.id \in DOMAIN indexers_info.v
          ELSE /\ fetched.id \notin DOMAIN indexers_info.v
               /\ FilteredOut(fetched.id) =
                     {[id |-> fetched.id, err |-> CheckMessages[FirstFailingCheck(fetched)]]}
    /\ \A id \in DOMAIN indexers_info.v : Len(indexers_info.v[id].deployments) >= 1

C16_Witness ==
    /\ indexers_info.status = "Ok"
    /\ \E a, b \in FetchedIndexersSeen :
          /\ ~a.url.some /\ a.allocations = <<>>
          /\ FilteredOut(a.id) # {}
          /\ b.id \in DOMAIN indexers_info.v

\* the fetched indexer a returned IndexerInfo was made from
FetchedIndexer(id) == CHOOSE fetched \in FetchedIndexersSeen : fetched.id = id
\* the allocations of a fetched indexer on a deployment, as a set
AllocationsOn(fetched, d) ==
    {alloc \in Range(fetched.allocations) : alloc.subgraph_deployment.id = d}
AllocatedTo(fetched) ==
    {alloc.subgraph_deployment.id : alloc \in Range(fetched.allocations)}

\* C17 (as stated): for every returned indexer and every deployment d it is
\* allocated to, largest_allocation[d] is the id of the allocation with the
\* maximal allocated_tokens among its allocations on d, ties broken by
\* ascending allocation id, for any order in which the registry lists the
\* allocations.
C17_LargestAllocationIsMaximal ==
    \A id \in DOMAIN indexers_info.v :
        \A d \in AllocatedTo(FetchedIndexer(id)) :
            LET on == AllocationsOn(FetchedIndexer(id), d)
                largest == CHOOSE a \in on :
                               \A b \in on :
                                   \/ b.allocated_tokens < a.allocated_tokens
                                   \/ b.allocated_tokens = a.allocated_tokens /\ a.id <= b.id
            IN /\ d \in DOMAIN indexers_info.v[id].largest_allocation
               /\ indexers_info.v[id].largest_allocation[d] = largest.id

RECURSIVE TotalOf(_)
TotalOf(allocs) ==
    IF allocs = {} THEN 0
    ELSE LET a == CHOOSE x \in allocs : TRUE
         IN a.allocated_tokens + TotalOf(allocs \ {a})

\* C18: for every returned indexer and every deployment d it is allocated to,
\* total_allocated_tokens[d] is the sum of allocated_tokens over all of its
\* allocations on d, and there is no entry for any other deployment.
C18_TotalAllocatedTokens ==
    \A id \in DOMAIN indexers_info.v :
        /\ DOMAIN indexers_info.v[id].total_allocated_tokens = AllocatedTo(FetchedIndexer(id))
        /\ \A d \in AllocatedTo(FetchedIndexer(id)) :
              indexers_info.v[id].total_allocated_tokens[d] =
                  TotalOf(AllocationsOn(FetchedIndexer(id), d))

C18_Witness ==
    \E id \in DOMAIN indexers_info.v :
        \E d, e \in AllocatedTo(FetchedIndexer(id)) :
            /\ d # e
            /\ Cardinality(AllocationsOn(FetchedIndexer(id), d)) >= 2
            /\ indexers_info.v[id].total_allocated_tokens[d] >= 3

\* the index of the first allocation on d in the list of a fetched indexer
FirstOccurrence(fetched, d) ==
    CHOOSE k \in DOMAIN fetched.allocations :
        /\ fetched.allocations[k].subgraph_deployment.id = d
        /\ \A j \in 1..(k - 1) : fetched.allocations[j].subgraph_deployment.id # d

ReturnsErrorOrKeyedMap(returned, answer, valid) ==
    returned.status # "pending" =>
        /\ returned.status = "Err" <=>
              \/ ~answer.ok
              \/ answer.v = <<>>
              \/ valid = {}
        /\ returned.status = "Err" => returned.v = EmptyMap
        /\ returned.status = "Ok" =>
              /\ returned.v # EmptyMap
              /\ \A key \in DOMAIN returned.v : returned.v[key].id = key
              /\ DOMAIN returned.v = {record.id : record \in valid}

\* C20: fetch_and_pre_process_indexers_info and
\* fetch_and_pre_process_subgraphs_info each return an error when the registry
\* call fails, when it answers an empty list, or when every fetched record is
\* invalid (an indexer failing a check, a subgraph without versions); otherwise
\* they return a non-empty map in which every key is the id of its record.
C20_FetchErrorsAndKeys ==
    /\ ReturnsErrorOrKeyedMap(indexers_info, client.indexers,
           {fetched \in Range(client.indexers.v) : FailingChecks(fetched) = {}})
    /\ ReturnsErrorOrKeyedMap(subgraphs_info, client.subgraphs,
           {subgraph \in Range(client.subgraphs.v) : subgraph.versions # <<>>})

C20_Witness ==
    /\ indexers_info.status = "Err"
    /\ client.indexers.ok /\ Len(client.indexers.v) = NumIndexers
    /\ subgraphs_info.status = "Ok"
    /\ Cardinality(DOMAIN subgraphs_info.v) < Len(client.subgraphs.v)

\* the causes the claim lists for the failure of a side
IndexersSideFails ==
    \/ indexers_info.status = "Err"
    \/ result.status = "Err"
    \/ side.indexers = "Err"
SubgraphsSideFails ==
    \/ subgraphs_info.status = "Err"
    \/ side.subgraphs = "Err"

\* C21: fetch_update returns Ok, with the value snapshot::new_from built from
\* the two sides, only when the registry fetch, the pre-processing and the
\* per-indexer pipeline of the indexers side and the registry fetch and the
\* pre-processing of the subgraphs side all returned Ok; when a side fails (fetch
\* error, empty answer, no valid record, no surviving indexer, timeout)
\* fetch_update returns Err, and after that snapshot::new_from is never called:
\* the returned error stays.
C21_SnapshotOnlyIfBothSidesOk ==
    /\ [](/\ update.status = "Ok" =>
              /\ indexers_info.status = "Ok" /\ result.status = "Ok"
              /\ subgraphs_info.status = "Ok"
              /\ \A s \in Sides : side[s] = "Ok"
              /\ update.v = [indexers_info |-> result.v, subgraphs_info |-> subgraphs_info.v]
              /\ client.indexers.ok /\ client.indexers.v # <<>> /\ result.v # EmptyMap
              /\ client.subgraphs.ok /\ client.subgraphs.v # <<>>
          /\ IndexersSideFails \/ SubgraphsSideFails => update.status = "Err")
    /\ [][update.status = "Err" => update' = update]_vars

\* fetch_update returned the snapshot of a refresh in which an indexer was dropped
C21_Witness ==
    /\ update.status = "Ok"
    /\ \E i \in Tasks : pc[i] = "dropped"

\* a registry fetch is in flight: the side holds the client and its timeout runs
InFlight(s) == side[s] = "fetch"

\* C22: the two registry fetches of one fetch_update run concurrently under
\* independent timeouts: a side that has not started its fetch can start it (and
\* its timeout) whatever the other side does, also while the fetch of the other
\* side is in flight.
C22_FetchesRunConcurrently ==
    \A s \in Sides :
        (side[s] = "lock" /\ Updating /\ \E o \in Sides \ {s} : InFlight(o))
            => ENABLED client_lock(s)

\* what the code does instead: the two fetches are never in flight together
C22_FetchesSerialized == ~(InFlight("indexers") /\ InFlight("subgraphs"))

\* the registry answers the paginated query with a non-empty list
RegistryAnswersNonEmpty == IF registry.ok THEN registry.v # <<>> ELSE FALSE

\* C23: poll_subgraphs writes the published subgraphs value only when the
\* paginated query succeeded with a non-empty result, and then it writes that
\* result; a poll that failed or got an empty result leaves the published value
\* unchanged, and nothing else writes it; the published value is never an
\* empty list.
C23_PollWritesOnlyNonEmpty ==
    /\ [][\A n \in polling \ polling' :
             IF RegistryAnswersNonEmpty
             THEN network_subgraphs' = Eventual(n, registry.v)
             ELSE network_subgraphs' = network_subgraphs]_vars
    /\ [][network_subgraphs' # network_subgraphs =>
             polling' # polling /\ RegistryAnswersNonEmpty]_vars
    /\ [](network_subgraphs.poll # 0 => network_subgraphs.v # <<>>)

\* a poll got an empty result while a value was published, which is still there
C23_Witness ==
    /\ registry = Ok(<<>>)
    /\ polling = {}
    /\ outcomes # <<>>
    /\ outcomes[Len(outcomes)] = "Err"
    /\ network_subgraphs.poll # 0
    /\ network_subgraphs.poll < polls

\* C24: a failed poll never stops the poll loop: after a poll that returned Err
\* the next tick of the timer calls poll_subgraphs again (as long as the model
\* has polls left), and when the registry comes to answer with a non-empty list
\* for good, the published value is eventually replaced by that list.
C24_FailedPollDoesNotStopLoop ==
    /\ \A n \in 1..(MaxPolls - 1) :
           (Len(outcomes) = n /\ outcomes[n] = "Err") ~> (polls > n)
    /\ <>[]RegistryAnswersNonEmpty => <>[](network_subgraphs.v = registry.v)

\* a poll that failed was followed by a poll that wrote the answer of the registry
C24_Witness ==
    /\ \E k \in DOMAIN outcomes :
           k > 1 /\ outcomes[k - 1] = "Err" /\ outcomes[k] = "Ok"
    /\ network_subgraphs.poll = Len(outcomes)
    /\ network_subgraphs.v = registry.v

\* the polls whose results a reader sees in the four Eventuals
Observed ==
    <<network_subgraphs.poll, graph_network.subgraphs.poll,
      graph_network.deployments.poll, graph_network.indexers.poll>>

\* C25: the publications are totally ordered by the start of their polls: two
\* polls never run at the same time, every write of the published value comes
\* from a poll started after the poll of the value it replaces, and a reader of
\* the published value (or of a table derived from it) never sees the result of
\* an earlier poll after the result of a later one.
C25_PublicationsOrderedByPollStart ==
    /\ [](Cardinality(polling) <= 1)
    /\ [][network_subgraphs' # network_subgraphs =>
             network_subgraphs'.poll > network_subgraphs.poll]_vars
    /\ [][\A k \in DOMAIN Observed : Observed'[k] >= Observed[k]]_vars

\* the result of the second poll replaced the result of the first one
C25_Witness ==
    /\ Len(outcomes) >= 2
    /\ outcomes[1] = "Ok" /\ outcomes[2] = "Ok"
    /\ network_subgraphs.poll = 2
    /\ graph_network.subgraphs.poll = 2

\* the tables a reader of GraphNetwork gets from value_immediate()
VisibleSubgraphs == graph_network.subgraphs.v
VisibleDeployments == graph_network.deployments.v
VisibleIndexers == graph_network.indexers.v

\* C26: a reader of GraphNetwork never sees a mix of two registry updates: every
\* deployment referenced by a visible subgraph is a key of the visible
\* deployments table, and every indexer of a visible deployment is a key of the
\* visible indexers table.
C26_ReaderSeesNoMix ==
    new = "returned" =>
        /\ \A s \in DOMAIN VisibleSubgraphs :
               \A d \in Range(VisibleSubgraphs[s].deployments) :
                   d.id \in DOMAIN VisibleDeployments
        /\ \A d \in DOMAIN VisibleDeployments :
               DOMAIN VisibleDeployments[d].indexers \subseteq DOMAIN VisibleIndexers

\* C27: GraphNetwork::new returns only after a registry update went through the
\* three map tasks: from the step in which it returns, the subgraphs table, the
\* deployments table and the indexers table all hold a value, and until then it
\* keeps waiting however many polls fail.
C27_NewReturnsAfterFirstUpdate ==
    /\ [](new = "returned" =>
              /\ graph_network.subgraphs.poll # 0
              /\ graph_network.deployments.poll # 0
              /\ graph_network.indexers.poll # 0
              /\ network_subgraphs.poll # 0)
    /\ [][new' # new => new = "awaiting" /\ new' = "returned"]_vars

\* new has returned with the update of the second poll, the first poll having failed
C27_Witness ==
    /\ new = "returned"
    /\ outcomes = <<"Err", "Ok">>
    /\ graph_network.deployments.poll = 2
    /\ graph_network.indexers.poll = 2

\* what the registry lists for the subgraph deployments of the published update
RegistryDeployments ==
    UNION {{network_subgraphs.v[k].versions[v].subgraph_deployment :
               v \in DOMAIN network_subgraphs.v[k].versions} :
              k \in DOMAIN network_subgraphs.v}

\* the Deployments a reader reaches through the subgraphs and deployments tables
VisibleDeploymentRecords == deployments_of(VisibleSubgraphs) \cup Range(VisibleDeployments)

\* C28: the transferred_to_l2 of a published Deployment is true exactly when the
\* flag of the registry is true and the registry lists no allocation on the
\* deployment (allocations of indexers without a usable URL count as listed).
C28_TransferredToL2 ==
    \A d \in VisibleDeploymentRecords :
        \A listed \in RegistryDeployments :
            listed.id = d.id =>
                (d.transferred_to_l2 <=>
                    (listed.transferred_to_l2 /\ Len(listed.allocations) = 0))

\* a Deployment marked as transferred is published, next to a Deployment that
\* has the flag of the registry and no indexer, but an allocation
C28_Witness ==
    /\ \E d \in Range(VisibleDeployments) : d.transferred_to_l2
    /\ \E d \in Range(VisibleDeployments) :
           /\ ~d.transferred_to_l2
           /\ DOMAIN d.indexers = {}
           /\ \E listed \in RegistryDeployments :
                  listed.id = d.id /\ listed.transferred_to_l2

\* the versions of a listed subgraph for which GraphNetwork::deployment has a
\* manifest with a network
WithManifestNetwork(versions) ==
    SelectSeq(versions, LAMBDA version :
        IF version.subgraph_deployment.manifest.some
        THEN version.subgraph_deployment.manifest.v.network.some
        ELSE FALSE)

\* C29: a deployment referenced by a subgraph version is published even when
\* none of its indexers survive: for every listed version whose manifest and
\* manifest network are present, a Deployment with the id of the version is in
\* the deployments of its subgraph and, once the deployments table is written,
\* under its id in that table; its indexers map holds only indexers of the
\* listed allocations and may be empty.
C29_DeploymentsWithoutIndexersPublished ==
    graph_network.subgraphs.poll # 0 =>
        \A k \in DOMAIN network_subgraphs.v :
            LET listed == network_subgraphs.v[k]
                versions == WithManifestNetwork(listed.versions)
            IN \A v \in DOMAIN versions :
                   LET id == versions[v].subgraph_deployment.id
                       allocations == versions[v].subgraph_deployment.allocations
                   IN /\ \E d \in Range(VisibleSubgraphs[listed.id].deployments) :
                             /\ d.id = id
                             /\ DOMAIN d.indexers \subseteq
                                    {allocations[a].indexer.id : a \in DOMAIN allocations}
                             /\ (\A a \in DOMAIN allocations :
                                     ~allocations[a].indexer.url.some)
                                    => DOMAIN d.indexers = {}
                      /\ graph_network.deployments.poll # 0 =>
                             /\ id \in DOMAIN VisibleDeployments
                             /\ VisibleDeployments[id].id = id

\* a Deployment with allocations in the registry and no indexer left is in the
\* deployments of a subgraph and in the deployments table
C29_Witness ==
    /\ graph_network.deployments.poll # 0
    /\ \E s \in DOMAIN VisibleSubgraphs :
           \E d \in Range(VisibleSubgraphs[s].deployments) :
               /\ DOMAIN d.indexers = {}
               /\ d.id \in DOMAIN VisibleDeployments
               /\ DOMAIN VisibleDeployments[d.id].indexers = {}
               /\ \E listed \in RegistryDeployments :
                      listed.id = d.id /\ listed.allocations # <<>>

\* the ids of the Deployments of a visible subgraph, in their order
DeploymentIds(s) ==
    [j \in DOMAIN VisibleSubgraphs[s].deployments |-> VisibleSubgraphs[s].deployments[j].id]

\* C30: the relation between subgraphs and deployments is symmetric: a visible
\* subgraph S lists a Deployment with id D exactly when S is in the subgraphs
\* set of the Deployment D, be it the one S holds or the one of the deployments
\* table; every subgraph id in the subgraphs set of a Deployment is a key of the
\* subgraphs table; and the Deployments of a subgraph are in the ascending
\* order of the versions the registry lists.
C30_SubgraphDeploymentSymmetry ==
    graph_network.subgraphs.poll # 0 =>
        /\ \A d \in VisibleDeploymentRecords :
               /\ d.subgraphs \subseteq DOMAIN VisibleSubgraphs
               /\ \A s \in DOMAIN VisibleSubgraphs :
                      (d.id \in Range(DeploymentIds(s))) <=> (s \in d.subgraphs)
        /\ \A k \in DOMAIN network_subgraphs.v :
               LET listed == network_subgraphs.v[k]
                   versions == WithManifestNetwork(listed.versions)
               IN /\ DeploymentIds(listed.id) =
                         [j \in DOMAIN versions |-> versions[j].subgraph_deployment.id]
                  /\ \A i, j \in DOMAIN versions :
                         i < j => versions[i].version < versions[j].version

\* two subgraphs share a deployment, and one of them lists it behind another one
C30_Witness ==
    /\ graph_network.deployments.poll # 0
    /\ \E d \in Range(VisibleDeployments) :
           /\ Cardinality(d.subgraphs) = 2
           /\ \E s \in d.subgraphs :
                  /\ Len(DeploymentIds(s)) = 2
                  /\ DeploymentIds(s)[2] = d.id
                  /\ DeploymentIds(s)[1] # d.id

\* the list of subgraphs the subgraphs table of GraphNetwork was built from
Converted == network_subgraphs.v

\* the calls of GraphNetwork::deployment that built a Deployment
Built == {call \in DOMAIN ip_blocker :
             LET manifest == Converted[call[1]].versions[call[2]].subgraph_deployment.manifest
             IN IF manifest.some THEN manifest.v.network.some ELSE FALSE}

\* the Deployment a call of GraphNetwork::deployment left in its subgraph
DeploymentBuilt(call) ==
    VisibleSubgraphs[Converted[call[1]].id].deployments[
        Cardinality({w \in 1..call[2] : <<call[1], w>> \in Built})]

\* the indexers the registry allocates to the deployment of a call with a URL
\* that the IP blocker reported as blocked during the call
ReportedBlocked(call) ==
    LET allocations == Converted[call[1]].versions[call[2]].subgraph_deployment.allocations
    IN {allocations[k].indexer.id : k \in
           {k \in DOMAIN allocations :
               /\ allocations[k].indexer.url.some
               /\ parse_url(allocations[k].indexer.url.v).ok
               /\ parse_url(allocations[k].indexer.url.v).v \in ip_blocker[call]}}

\* the calls that built a Deployment to which the registry allocates indexer i
\* with a URL that parses
BuiltWith(i) ==
    {call \in Built :
        LET allocations == Converted[call[1]].versions[call[2]].subgraph_deployment.allocations
        IN \E k \in DOMAIN allocations :
               /\ allocations[k].indexer.id = i
               /\ allocations[k].indexer.url.some
               /\ parse_url(allocations[k].indexer.url.v).ok}

\* C31: an indexer whose URL the IP blocker reports as blocked while a
\* deployment is built is not in the indexers map of that deployment, and an
\* indexer reported as blocked for every deployment built with it is not in
\* the indexers table collected from these deployments.
C31_IpBlockedIndexersAbsent ==
    (graph_network.subgraphs.poll # 0 /\ network_subgraphs.poll = graph_network.subgraphs.poll) =>
        /\ \A call \in Built :
               ReportedBlocked(call) \cap DOMAIN DeploymentBuilt(call).indexers = {}
        /\ graph_network.indexers.poll = graph_network.subgraphs.poll =>
               \A i \in Addresses :
                   (\A call \in BuiltWith(i) : i \in ReportedBlocked(call))
                       => i \notin DOMAIN VisibleIndexers

\* one indexer is blocked in every deployment built with it and is not in the
\* indexers table; another one is blocked in one deployment, admitted in
\* another, and is in the table
C31_Witness ==
    /\ graph_network.subgraphs.poll # 0
    /\ graph_network.indexers.poll = graph_network.subgraphs.poll
    /\ \E i, j \in Addresses :
           /\ BuiltWith(i) # {}
           /\ \A call \in BuiltWith(i) : i \in ReportedBlocked(call)
           /\ i \notin DOMAIN VisibleIndexers
           /\ \E call \in BuiltWith(j) :
                  /\ j \in ReportedBlocked(call)
                  /\ j \notin DOMAIN DeploymentBuilt(call).indexers
           /\ \E call \in BuiltWith(j) : j \in DOMAIN DeploymentBuilt(call).indexers
           /\ j \in DOMAIN VisibleIndexers

\* the item is one of the entries of the list
Listed(list, item) == \E k \in DOMAIN list : list[k] = item

\* the authorized list a check is made on
AuthorizedFor(fn) ==
    CASE fn \in {"is_deployment_authorized", "are_deployments_authorized"} ->
             auth.authorized.deployments
      [] fn \in {"is_subgraph_authorized", "are_subgraphs_authorized"} ->
             auth.authorized.subgraphs
      [] fn = "is_domain_authorized" -> auth.authorized.domains

HasSuffix(text, rest) ==
    \E k \in 0..Len(text) : [j \in 1..(Len(text) - k) |-> text[k + j]] = rest

\* the text of a wildcard pattern behind its leading '*' characters
BehindWildcard(pattern) ==
    LET stars == CHOOSE n \in 1..Len(pattern) :
                     /\ \A j \in 1..n : pattern[j] = "*"
                     /\ n < Len(pattern) => pattern[n + 1] # "*"
    IN [j \in 1..(Len(pattern) - stars) |-> pattern[stars + j]]

\* what the claim calls a match of a pattern
Matches(pattern, origin) ==
    IF Len(pattern) > 0 /\ pattern[1] = "*"
    THEN HasSuffix(origin, BehindWildcard(pattern))
    ELSE origin = pattern

\* C33: with a non-empty list of authorized domains, is_domain_authorized is
\* true exactly when some pattern matches the origin: a pattern that does not
\* start with '*' matches the identical origin only (no subdomain and no parent
\* domain of it), a pattern that starts with '*' matches every origin that
\* ends with the text of the pattern behind the '*'.
C33_DomainPatterns ==
    (auth.returned.some /\ auth.authorized.domains # <<>>) =>
        LET call == auth.returned.v
            patterns == Range(auth.authorized.domains)
        IN call.fn = "is_domain_authorized" =>
               /\ call.v <=> \E pattern \in patterns : Matches(pattern, call.input)
               /\ \A pattern \in patterns :
                      (Len(pattern) > 0 /\ pattern[1] = "*"
                         /\ HasSuffix(call.input, Tail(pattern))) => call.v
               /\ (\A pattern \in patterns : Len(pattern) = 0 \/ pattern[1] # "*")
                      => (call.v <=> call.input \in patterns)

\* the origin is a subdomain of a listed domain, which does not match it, and
\* is authorized by a wildcard pattern of the list
C33_Witness ==
    /\ auth.returned.some
    /\ auth.returned.v.fn = "is_domain_authorized"
    /\ auth.returned.v.v
    /\ \E k, w \in DOMAIN auth.authorized.domains :
           /\ auth.authorized.domains[k] = <<"a">>
           /\ auth.returned.v.input = <<"a", ".", "a">>
           /\ auth.authorized.domains[w][1] = "*"
           /\ Len(auth.authorized.domains[w]) > 1

\* the names of the top-level fields of an operation that are not named sql
OffendingFields(operation) ==
    LET at == {k \in DOMAIN operation.items :
                  operation.items[k].kind = "Field" /\ operation.items[k].name # "sql"}
        nth(n) == CHOOSE k \in at : Cardinality({j \in at : j <= k}) = n
    IN [n \in 1..Cardinality(at) |-> operation.items[nth(n)].name]

\* the texts of the lists of names used by the documents of the model
ListText(names) ==
    CASE names = <<"users">> -> "users"
      [] names = <<"tokens", "users">> -> "tokens, users"
      [] names = <<"users", "tokens">> -> "users, tokens"
      [] OTHER -> ""

\* C34: validate_sql_query returns Ok exactly when every top-level field of
\* every operation of the document is named sql; a document with an operation
\* that selects a top-level field of another name is rejected with an error
\* that lists the offending names of an operation in the order of selection.
C34_OnlySqlFieldsValidated ==
    sql.returned.status # "pending" =>
        LET offending == {k \in DOMAIN sql.operations :
                             OffendingFields(sql.operations[k]) # <<>>}
        IN /\ sql.returned.status = "Ok" <=> offending = {}
           /\ offending # {} =>
                  /\ sql.returned.status = "Err"
                  /\ \E k \in offending :
                         sql.returned.error =
                             "Fields [" \o ListText(OffendingFields(sql.operations[k]))
                                        \o "] are not SQL"

\* what holds of the code: the claim for the operations written with the
\* keyword query, the error naming the first of them with an offending field
C34_QueryOperationsValidated ==
    sql.returned.status # "pending" =>
        LET offending == {k \in DOMAIN sql.operations :
                             /\ sql.operations[k].kind = "Query"
                             /\ OffendingFields(sql.operations[k]) # <<>>}
        IN /\ sql.returned.status = "Ok" <=> offending = {}
           /\ offending # {} =>
                  /\ sql.returned.status = "Err"
                  /\ \E k \in offending :
                         /\ \A j \in offending : k <= j
                         /\ sql.returned.error =
                                "Fields [" \o ListText(OffendingFields(sql.operations[k]))
                                           \o "] are not SQL"

\* the deployments of indexer i that the POI blocklist check marks blocked on
\* the answer of the POI probe
BlockedByPoi(i) ==
    LET blocklist == state.indexer_indexing_pois_blocklist
        before == indexers[i].deployments
        affected == PoiBlocklist_affected_pois_metadata(blocklist.v, before)
        check_result == PoiBlocklist_check(blocklist.v, Restrict(net[i].poi.v, affected))
    IN IF blocklist.some /\ net[i].poi.ok
       THEN {d \in Range(before) \cap DOMAIN check_result : check_result[d] = "blocked"}
       ELSE {}

\* the deployments lists the progress and the cost model resolver were asked for
Probed(i) ==
    {log[i][k].args : k \in {k \in DOMAIN log[i] :
        log[i][k].op \in {"resolve_progress", "resolve_cost_models"}}}

\* C35: the progress probe and the cost model probe of an indexer are issued
\* with the deployments list the POI step left: the deployments the registry
\* listed, in their order, without those the POI blocklist removed, none of
\* which is sent to the two resolvers.
C35_ProbesUseDeploymentsLeftByPoi ==
    \A i \in Tasks :
        \A deployments \in Probed(i) :
            /\ PoiStepLeft(i)
            /\ deployments = indexer[i].deployments
            /\ deployments = SelectSeq(indexers[i].deployments,
                                       LAMBDA d : d \notin BlockedByPoi(i))
            /\ Range(deployments) \cap BlockedByPoi(i) = {}

\* both probes of an indexer were issued after the POI step removed one of its
\* deployments
C35_Witness ==
    \E i \in Tasks :
        /\ BlockedByPoi(i) # {}
        /\ Called(i, "resolve_poi")
        /\ Called(i, "resolve_progress")
        /\ Called(i, "resolve_cost_models")
        /\ Len(indexer[i].deployments) < Len(indexers[i].deployments)

\* a side of the try_join has not returned its value
StillRunning(s) == side[s] \in {"lock", "fetch", "process"}

\* a task of process_indexers_info has begun and has not ended
PartiallyProcessed(i) == log[i] # <<>> /\ pc[i] \notin {"done", "dropped"}

\* C36: when one side of fetch_update fails, fetch_update returns the error in
\* that step, whatever the other side is doing; once it has returned, no task
\* of process_indexers_info takes a step or issues a probe, and the value
\* returned with the error holds no indexer record.
C36_FailureCancelsOtherSide ==
    /\ [][/\ (\E s \in Sides : side[s] # "Err" /\ side'[s] = "Err")
                 => (update.status = "pending" /\ update'.status = "Err")
          /\ update.status # "pending"
                 => /\ UNCHANGED <<log, pc, indexer, local, result, update>>
                    /\ UNCHANGED <<indexer_host_resolver, pois_resolver, compiler>>]_vars
    /\ [](/\ (\E s \in Sides : side[s] = "Err") => update.status = "Err"
          /\ update.status = "Err" =>
                /\ update.v = EmptyMap
                /\ indexer_host_resolver = 0 /\ pois_resolver = 0 /\ compiler = 0)

\* the subgraphs side failed while the indexers were being probed: fetch_update
\* returned the error with a task of process_indexers_info in the middle
C36_Witness ==
    /\ update.status = "Err"
    /\ side.subgraphs = "Err"
    /\ StillRunning("indexers")
    /\ result.status = "pending"
    /\ \E i \in Tasks : PartiallyProcessed(i) /\ Called(i, "resolve_url")

\* the pipeline run for one indexer on its own, step after step: what it
\* yields for the configuration, the pre-processed record of the indexer and
\* the answers of the resolvers for that indexer
PipelineAlone(config, info, answers) ==
    LET graph_node_version ==
            IF answers.node.ok THEN answers.node.v
            ELSE config.indexer_min_graph_node_version
        pois == config.indexer_indexing_pois_blocklist
        affected == {<<e[1], e[2]>> : e \in {x \in pois.v : x[1] \in Range(info.deployments)}}
        probed == pois.some /\ affected # {}
        blocked == {d \in Range(info.deployments) :
                       \E k \in DOMAIN answers.poi.v \cap affected :
                           k[1] = d /\ <<k[1], k[2], answers.poi.v[k]>> \in pois.v}
        deployments == IF probed
                       THEN SelectSeq(info.deployments, LAMBDA d : d \notin blocked)
                       ELSE info.deployments
        sources == IF answers.cost.ok THEN answers.cost.v ELSE EmptyMap
        compiled == {d \in DOMAIN sources : sources[d] = "src_good"}
    IN IF \/ (config.indexer_addr_blocklist.some
                /\ info.id \in config.indexer_addr_blocklist.v)
          \/ ~answers.host.ok
          \/ (config.indexer_host_blocklist.some
                /\ \E ip \in answers.host.v :
                       \E network \in config.indexer_host_blocklist.v : ip \in network)
          \/ ~answers.agent.ok
          \/ VersionLt(answers.agent.v, config.indexer_min_agent_version)
          \/ VersionLt(graph_node_version, config.indexer_min_graph_node_version)
          \/ (probed /\ ~answers.poi.ok)
          \/ deployments = <<>>
          \/ ~answers.progress.ok
       THEN None
       ELSE Some([info EXCEPT
                     !.indexer_agent_version = answers.agent.v,
                     !.graph_node_version = graph_node_version,
                     !.deployments = deployments,
                     !.indexings_progress =
                         [d \in DOMAIN answers.progress.v |->
                             [latest_block |-> answers.progress.v[d].latest_block,
                              min_block |-> answers.progress.v[d].min_block]],
                     !.indexings_cost_model =
                         [d \in compiled |-> <<"cost_model", sources[d]>>]])

\* C37: the result of process_indexers_info does not depend on the
\* interleaving of the per-indexer tasks: under every interleaving each task
\* ends as its pipeline would end run alone on the indexer's own record and
\* answers, and the map returned holds exactly the indexers that survive
\* alone, with the same field values.
C37_InterleavingIndependent ==
    /\ \A i \in Tasks :
           pc[i] \in {"done", "dropped"} =>
               LET alone == PipelineAlone(state, indexers[i], net[i])
               IN /\ pc[i] = "done" <=> alone.some
                  /\ pc[i] = "done" => indexer[i] = alone.v
    /\ result.status \notin {"idle", "pending"} =>
           LET survivors == {i \in Tasks : PipelineAlone(state, indexers[i], net[i]).some}
           IN /\ result.status = "Ok" <=> survivors # {}
              /\ result.status = "Ok" =>
                     /\ DOMAIN result.v = survivors
                     /\ \A i \in survivors :
                            result.v[i] = PipelineAlone(state, indexers[i], net[i]).v

\* two tasks went through the shared host resolver; one was dropped later, the
\* other went through the POI resolver and the compiler and is in the result
C37_Witness ==
    /\ result.status = "Ok"
    /\ \E i, j \in Tasks :
           /\ pc[i] = "dropped" /\ Called(i, "resolve_url")
           /\ pc[j] = "done" /\ Called(j, "compile")
           /\ j \in DOMAIN result.v

\* C38 (as stated): for every indexer in the result of process_indexers_info
\* the key set of largest_allocation and the key set of total_allocated_tokens
\* are the set of the deployments of the indexer, also after the POI step
\* removed deployments.
C38_AllocationKeysAreDeployments ==
    result.status = "Ok" =>
        \A i \in DOMAIN result.v :
            /\ DOMAIN result.v[i].largest_allocation = Range(result.v[i].deployments)
            /\ DOMAIN result.v[i].total_allocated_tokens = Range(result.v[i].deployments)

\* C38 (amended): for every indexer in the result the key sets of
\* largest_allocation and of total_allocated_tokens are the set of the
\* deployments the registry lists allocations of the indexer on; the POI step
\* removes deployments from the deployments list only, so that the deployments
\* of the indexer are these keys without the deployments the POI step removed.
C38_AllocationKeysAreAllocatedDeployments ==
    result.status = "Ok" =>
        \A i \in DOMAIN result.v :
            LET allocated == AllocatedTo(FetchedIndexer(i))
            IN /\ DOMAIN result.v[i].largest_allocation = allocated
               /\ DOMAIN result.v[i].total_allocated_tokens = allocated
               /\ Range(result.v[i].deployments) = allocated \ BlockedByPoi(i)

\* an indexer is in the result after the POI step removed one of its deployments
C38_Witness ==
    /\ result.status = "Ok"
    /\ \E i \in DOMAIN result.v :
           /\ Called(i, "resolve_poi")
           /\ BlockedByPoi(i) # {}
           /\ Range(result.v[i].deployments) # AllocatedTo(FetchedIndexer(i))

\* the mutexes of the resolvers that task i holds
HeldBy(i) ==
    {m \in {"host", "poi", "compiler"} :
        i = (CASE m = "host" -> indexer_host_resolver
               [] m = "poi" -> pois_resolver
               [] m = "compiler" -> compiler)}

====
